---- MODULE Spec2Model ----
(***************************************************************************)
(* Bau Cua multiplayer: the session and state-synchronisation protocol of  *)
(* App (src/unnamed/part_001) over PeerJS links.                           *)
(*                                                                         *)
(* Processes.  "h" and "a" each run the App component.  The user of "h"    *)
(* creates rooms, the page of "a" is opened with the invitation link       *)
(* (?room=...).  A member of Foreign is a remote endpoint that dials the   *)
(* Host's public endpoint name and speaks the wire protocol of types.ts    *)
(* directly; it has no state of its own, so what it sends is an input of   *)
(* the Host's message handler.                                             *)
(*                                                                         *)
(* React.  A state value read inside a callback is the value of the render *)
(* in which the callback was created.  The model keeps such captured       *)
(* values in variables of their own (handlerRole, shakeBets, joinBal,      *)
(* joinBets).  The effects of a render run right after the handler that    *)
(* caused the render and are part of the same action.                      *)
(***************************************************************************)
EXTENDS Integers, Sequences, FiniteSets, TLC

\* ------------------------------------------------------------ constants
GAME_ITEMS == <<"NAI", "BAU", "GA", "CA", "CUA", "TOM">>
BET_INCREMENT == 5000
INITIAL_BALANCE == 100000
MIN_BALANCE_TO_JOIN == 10000
MIN_BALANCE_TO_STAY == 5000
APP_PREFIX == "baucuatet2025-"

\* ------------------------------------------------------------ bounds
\* Item keys the users click and the dice show (a prefix of GAME_ITEMS).
NumKeys == 2
\* Remote endpoints speaking the wire protocol.
NumForeign == 1
\* Room codes the random generator draws from.
NumCodes == 1
\* Wagers a peer may hold at once (multiples of BET_INCREMENT).
MaxWagers == 1
\* Messages that may wait on the link to "a" when the Host starts a handler.
MaxQueue == 0
\* Rounds one page starts.
MaxRounds == 1
\* Rooms the Host's page creates.
MaxRooms == 2
\* JOIN_REQUESTs the Host accepts on one link.
MaxJoins == 2
\* Stakes a user of DeepSpec may try to place.
MaxDeepWagers == 21
\* Remote endpoints of MonitorSpec.
NumMembers == 2
\* Wagers a remote member of LedgerSpec may hold at once.
MaxMemberWagers == 2

\* Rounds the Host of RoundSpec may start.
MaxShakes == 2

\* Remote endpoints of CrowdSpec.
NumCrowd == 3

\* Room codes the generator draws from when a code turns out to be taken.
NumRetryCodes == 2

GameItemKey == {GAME_ITEMS[i] : i \in 1..Len(GAME_ITEMS)}
UsedKeys == {GAME_ITEMS[i] : i \in 1..NumKeys}
AllCodes == <<"R1", "R2", "R3">>
Codes == {AllCodes[i] : i \in 1..NumCodes}
AllForeign == <<"x1", "x2", "x3", "x4">>
Foreign == {AllForeign[i] : i \in 1..NumForeign}
Procs == {"h", "a"}
Clients == {"a"} \cup Foreign
\* The code of the invitation link "a" is opened with.
LinkCode == "R1"

getEmptyBets == [k \in GameItemKey |-> 0]

resolveRoom(code) == APP_PREFIX \o code

PlayerName(p) == "name-" \o p

RECURSIVE SumSeq(_)
SumSeq(s) == IF s = <<>> THEN 0 ELSE Head(s) + SumSeq(Tail(s))

RECURSIVE SumOver(_, _)
SumOver(f, S) ==
  IF S = {} THEN 0
  ELSE LET e == CHOOSE e \in S : TRUE IN f[e] + SumOver(f, S \ {e})

TotalBet(w) == SumOver(w, GameItemKey)

\* ------------------------------------------------------------ game logic
Appearances(results, key) ==
  Cardinality({i \in 1..Len(results) : results[i] = key})

\* calculateWinnings: the return of the wagers w (the `bets` the function
\* closes over) for the outcome `results`.
ReturnOfKey_Mut(w, results, key) ==
  IF w[key] > 0 /\ Appearances(results, key) > 0
  THEN w[key] * Appearances(results, key)
  ELSE 0

ReturnOfKey(w, results, key) ==
  IF w[key] > 0 /\ Appearances(results, key) > 0
  THEN w[key] + w[key] * Appearances(results, key)
  ELSE 0

totalReturn(w, results) ==
  SumOver([k \in GameItemKey |-> ReturnOfKey(w, results, k)], GameItemKey)

\* The outcomes the Host's page draws here: with the first two items they
\* show an item 0, 1, 2 and 3 times.
Outcomes == {<<GAME_ITEMS[1], GAME_ITEMS[1], GAME_ITEMS[2]>>,
             <<GAME_ITEMS[2], GAME_ITEMS[2], GAME_ITEMS[2]>>}

\* ------------------------------------------------------------ Host refs
\* playersInfoRef is a Map: iteration is in insertion order and set() on a
\* key that is present keeps its place.  It is a sequence of entries here.
RegHas(reg, id) == \E i \in 1..Len(reg) : reg[i].key = id

RegGet(reg, id) == reg[CHOOSE i \in 1..Len(reg) : reg[i].key = id].info

RegSet(reg, id, info) ==
  IF RegHas(reg, id)
  THEN [i \in 1..Len(reg) |->
          IF reg[i].key = id THEN [key |-> id, info |-> info] ELSE reg[i]]
  ELSE Append(reg, [key |-> id, info |-> info])

RegDelete(reg, id) == SelectSeq(reg, LAMBDA e : e.key # id)

RegValues(reg) == [i \in 1..Len(reg) |-> reg[i].info]

RegKeys(reg) == {reg[i].key : i \in 1..Len(reg)}

\* allPlayersBetsRef is a Map too; only its key set and values matter.
LedgerSet(ledger, id, w) ==
  [j \in DOMAIN ledger \cup {id} |-> IF j = id THEN w ELSE ledger[j]]

LedgerDelete(ledger, id) == [j \in DOMAIN ledger \ {id} |-> ledger[j]]

LedgerGet(ledger, id) ==
  IF id \in DOMAIN ledger THEN ledger[id] ELSE getEmptyBets

EmptyLedger == [j \in {} |-> getEmptyBets]

\* A snapshot that is taken before any wager is recorded.
calculateGlobalBetsFromRef_Mut(ledger) == [k \in GameItemKey |-> 0]

calculateGlobalBetsFromRef(ledger) ==
  [k \in GameItemKey |->
     SumOver([id \in DOMAIN ledger |-> ledger[id][k]], DOMAIN ledger)]

\* ------------------------------------------------------------ state
VARIABLES
  role, roomId, myId, balance, bets, globalBets, leaderboard, isShaking,
  diceResult, resultState, message, urlRoom,
  handlerRole, shakeBets, joinBal, joinBets, joinTarget,
  peerRef, pendingPeer, attemptCode, cLink,
  conns, ledger, reg, open, timers, shakeTimer, leaveTimer,
  upQ, downQ, rounds, rooms, notified, startBal, log

vars == <<role, roomId, myId, balance, bets, globalBets, leaderboard, isShaking,
          diceResult, resultState, message, urlRoom,
          handlerRole, shakeBets, joinBal, joinBets, joinTarget,
          peerRef, pendingPeer, attemptCode, cLink,
          conns, ledger, reg, open, timers, shakeTimer, leaveTimer,
          upQ, downQ, rounds, rooms, notified, startBal, log>>

\* The process whose user creates rooms; the refs conns (connectionsRef),
\* ledger (allPlayersBetsRef) and reg (playersInfoRef) are its refs.
HostProc == "h"

NoResult == [set |-> FALSE, winAmount |-> 0, totalBet |-> 0, results |-> <<>>]
NoTimer == [on |-> FALSE, bets |-> getEmptyBets]

\* The whole state as one record, so that a handler and the effects that
\* follow it can be written as the sequence of assignments they are.
World ==
  [role |-> role, roomId |-> roomId, myId |-> myId, balance |-> balance,
   bets |-> bets, globalBets |-> globalBets, leaderboard |-> leaderboard,
   isShaking |-> isShaking, diceResult |-> diceResult,
   resultState |-> resultState, message |-> message, urlRoom |-> urlRoom,
   handlerRole |-> handlerRole, shakeBets |-> shakeBets, joinBal |-> joinBal,
   joinBets |-> joinBets, joinTarget |-> joinTarget, peerRef |-> peerRef, pendingPeer |-> pendingPeer,
   attemptCode |-> attemptCode, cLink |-> cLink, conns |-> conns,
   ledger |-> ledger, reg |-> reg, open |-> open, timers |-> timers,
   shakeTimer |-> shakeTimer, leaveTimer |-> leaveTimer, upQ |-> upQ,
   downQ |-> downQ, rounds |-> rounds, rooms |-> rooms,
   notified |-> notified, startBal |-> startBal, log |-> <<>>]

Commit(W) ==
  /\ role' = W.role /\ roomId' = W.roomId /\ myId' = W.myId
  /\ balance' = W.balance /\ bets' = W.bets /\ globalBets' = W.globalBets
  /\ leaderboard' = W.leaderboard /\ isShaking' = W.isShaking
  /\ diceResult' = W.diceResult /\ resultState' = W.resultState
  /\ message' = W.message /\ urlRoom' = W.urlRoom
  /\ handlerRole' = W.handlerRole /\ shakeBets' = W.shakeBets
  /\ joinBal' = W.joinBal /\ joinBets' = W.joinBets
  /\ joinTarget' = W.joinTarget
  /\ peerRef' = W.peerRef /\ pendingPeer' = W.pendingPeer
  /\ attemptCode' = W.attemptCode /\ cLink' = W.cLink
  /\ conns' = W.conns /\ ledger' = W.ledger /\ reg' = W.reg
  /\ open' = W.open /\ timers' = W.timers /\ shakeTimer' = W.shakeTimer
  /\ leaveTimer' = W.leaveTimer /\ upQ' = W.upQ /\ downQ' = W.downQ
  /\ rounds' = W.rounds /\ rooms' = W.rooms /\ notified' = W.notified
  /\ startBal' = W.startBal
  /\ log' = W.log

\* ------------------------------------------------------------ Host helpers
\* The trace of what the running handler did, in order.
LogEv(W, e) == [W EXCEPT !.log = Append(@, e)]

\* The messages that tell one Client that the Host is about to drop its link.
DedicatedTypes == {"JOIN_REJECTED", "KICKED_NO_MONEY"}

ConnSend_Mut(W, c, m) ==
  LET W1 == LogEv([W EXCEPT !.notified = IF m.type \in DedicatedTypes
                                          THEN @ \cup {c} ELSE @],
                  [ev |-> "send", to |-> c, msg |-> m,
                   sum |-> calculateGlobalBetsFromRef(W.ledger),
                   players |-> RegValues(W.reg)])
  IN IF c = "a" /\ W.cLink["a"] = "open"
     THEN [W1 EXCEPT !.downQ = Append(@, m)]
     ELSE W1

\* conn.send(m) on the Host's side of the link to c: nothing leaves on a link
\* that is not open; what is sent to "a" waits in downQ while "a" holds its
\* end of the link.  The trace keeps, with the message, the key-wise sum of
\* the Ledger and the Registry as they are when it is sent.
ConnSend(W, c, m) ==
  IF c \notin W.open THEN W
  ELSE LET W1 == LogEv([W EXCEPT !.notified = IF m.type \in DedicatedTypes
                                               THEN @ \cup {c} ELSE @],
                       [ev |-> "send", to |-> c, msg |-> m,
                        sum |-> calculateGlobalBetsFromRef(W.ledger),
                        players |-> RegValues(W.reg)])
       IN IF c = "a" /\ W.cLink["a"] = "open"
          THEN [W1 EXCEPT !.downQ = Append(@, m)]
          ELSE W1

RECURSIVE BroadcastTo(_, _, _)
BroadcastTo(W, cs, m) ==
  IF cs = <<>> THEN W
  ELSE BroadcastTo(ConnSend(W, Head(cs), m), Tail(cs), m)

broadcast(W, m) == BroadcastTo(W, W.conns, m)

updateAndBroadcastGlobalBets(W) ==
  LET fresh == calculateGlobalBetsFromRef(W.ledger) IN
  broadcast([W EXCEPT !.globalBets[HostProc] = fresh],
            [type |-> "UPDATE_GLOBAL_BETS", bets |-> fresh])

updateAndBroadcastLeaderboard(W) ==
  LET playersList == RegValues(W.reg) IN
  broadcast([W EXCEPT !.leaderboard[HostProc] = playersList],
            [type |-> "LEADERBOARD_UPDATE", players |-> playersList])

\* An expulsion that leaves the participant's record in the Registry.
KickOne_Mut(W, playerId) ==
  IF RegHas(W.reg, playerId) /\ \E i \in 1..Len(W.conns) : W.conns[i] = playerId
  THEN LET player == RegGet(W.reg, playerId)
           W1 == ConnSend(W, playerId, [type |-> "KICKED_NO_MONEY"])
           W2 == broadcast(W1, [type |-> "PLAYER_LEFT", playerName |-> player.name])
           W3 == LogEv([W2 EXCEPT !.timers = @ \cup {playerId}],
                       [ev |-> "closeTimer", to |-> playerId])
           W4 == LogEv([W3 EXCEPT !.ledger = LedgerDelete(@, playerId)],
                       [ev |-> "delete", id |-> playerId])
       IN [W4 EXCEPT !.conns = SelectSeq(@, LAMBDA c : c # playerId),
                     !.message[HostProc] = "outOfMoneyLeft"]
  ELSE W

\* One iteration of playersToKick.forEach.
KickOne(W, playerId) ==
  IF RegHas(W.reg, playerId) /\ \E i \in 1..Len(W.conns) : W.conns[i] = playerId
  THEN LET player == RegGet(W.reg, playerId)
           W1 == ConnSend(W, playerId, [type |-> "KICKED_NO_MONEY"])
           W2 == broadcast(W1, [type |-> "PLAYER_LEFT", playerName |-> player.name])
           W3 == LogEv([W2 EXCEPT !.timers = @ \cup {playerId}],
                       [ev |-> "closeTimer", to |-> playerId])
           W4 == LogEv([W3 EXCEPT !.reg = RegDelete(@, playerId),
                                  !.ledger = LedgerDelete(@, playerId)],
                       [ev |-> "delete", id |-> playerId])
       IN [W4 EXCEPT !.conns = SelectSeq(@, LAMBDA c : c # playerId),
                     !.message[HostProc] = "outOfMoneyLeft"]
  ELSE W

KickAll_Mut(W, ids) ==
  IF ids = <<>> THEN W ELSE KickOne(W, Head(ids))

RECURSIVE KickAll(_, _)
KickAll(W, ids) ==
  IF ids = <<>> THEN W ELSE KickAll(KickOne(W, Head(ids)), Tail(ids))

playersToKick(r) ==
  LET broke == SelectSeq(r, LAMBDA e :
                 ~e.info.isHost /\ e.info.balance < MIN_BALANCE_TO_STAY)
  IN [i \in 1..Len(broke) |-> broke[i].key]

\* checkAndKickBrokePlayers, called from a closure in which `role` has the
\* value capturedRole.
checkAndKickBrokePlayers(W, capturedRole) ==
  IF capturedRole # "HOST" THEN W
  ELSE LET ids == playersToKick(W.reg)
           W1 == KickAll(W, ids)
       IN IF Len(ids) > 0
          THEN updateAndBroadcastLeaderboard(updateAndBroadcastGlobalBets(W1))
          ELSE W1

\* handleHostReceivedMessage(msg, peerId, conn).  The function is the one of
\* the render in which initHostPeer was called, so the checkAndKickBrokePlayers
\* it calls reads that render's role (handlerRole).
JoinRefused_Mut(b) == b <= MIN_BALANCE_TO_JOIN

JoinRefused(b) == b < MIN_BALANCE_TO_JOIN

HostJoinRequest(W, peerId, msg) ==
  IF JoinRefused(msg.playerInfo.balance)
  THEN LET W1 == ConnSend(W, peerId,
                   [type |-> "JOIN_REJECTED", reason |-> MIN_BALANCE_TO_JOIN])
       IN LogEv([W1 EXCEPT !.timers = @ \cup {peerId}],
                [ev |-> "closeTimer", to |-> peerId])
  ELSE LET W1 == LogEv([W EXCEPT !.conns = Append(@, peerId),
                                 !.ledger = LedgerSet(@, peerId, getEmptyBets),
                                 !.reg = RegSet(@, peerId, msg.playerInfo)],
                       [ev |-> "insert", id |-> peerId])
           W2 == ConnSend(W1, peerId,
                   [type |-> "JOIN_ACCEPTED",
                    roomState |-> [globalBets |-> calculateGlobalBetsFromRef(W1.ledger),
                                   players |-> RegValues(W1.reg)]])
           W3 == broadcast(W2, [type |-> "PLAYER_JOINED",
                                playerName |-> msg.playerInfo.name])
           W4 == [W3 EXCEPT !.message[HostProc] = "playerJoined"]
       IN updateAndBroadcastLeaderboard(updateAndBroadcastGlobalBets(W4))

\* A handler that records the new wager in place of the standing ones.
HostPlaceBet_Mut(W, peerId, msg) ==
  LET W1 == [W EXCEPT !.ledger = LedgerSet(@, peerId,
                        [getEmptyBets EXCEPT ![msg.key] = msg.amount])]
  IN updateAndBroadcastGlobalBets(W1)

HostPlaceBet(W, peerId, msg) ==
  LET playerBets == LedgerGet(W.ledger, peerId)
      W1 == [W EXCEPT !.ledger = LedgerSet(@, peerId,
                        [playerBets EXCEPT ![msg.key] = @ + msg.amount])]
  IN updateAndBroadcastGlobalBets(W1)

\* A handler that cancels the wagers of everybody.
HostResetBets_Mut(W, peerId) ==
  updateAndBroadcastGlobalBets(
    [W EXCEPT !.ledger = [id \in DOMAIN @ \cup {peerId} |-> getEmptyBets]])

HostResetBets(W, peerId) ==
  updateAndBroadcastGlobalBets(
    [W EXCEPT !.ledger = LedgerSet(@, peerId, getEmptyBets)])

HostPlayerUpdate(W, peerId, msg) ==
  IF RegHas(W.reg, peerId)
  THEN LET W1 == updateAndBroadcastLeaderboard(
                   [W EXCEPT !.reg = RegSet(@, peerId, msg.info)])
       IN IF msg.info.balance < MIN_BALANCE_TO_STAY
          THEN checkAndKickBrokePlayers(W1, W.handlerRole)
          ELSE W1
  ELSE W

handleHostReceivedMessage_Mut(W, peerId, msg) ==
  LET W0 == LogEv(W, [ev |-> "recv", from |-> peerId, msg |-> msg]) IN
  CASE msg.type = "JOIN_REQUEST" -> HostJoinRequest(W0, peerId, msg)
    [] msg.type = "PLACE_BET" -> HostPlaceBet(W0, peerId, msg)
    [] msg.type = "PLAYER_UPDATE" -> HostPlayerUpdate(W0, peerId, msg)
    [] OTHER -> HostResetBets(W0, peerId)

handleHostReceivedMessage(W, peerId, msg) ==
  LET W0 == LogEv(W, [ev |-> "recv", from |-> peerId, msg |-> msg]) IN
  CASE msg.type = "JOIN_REQUEST" -> HostJoinRequest(W0, peerId, msg)
    [] msg.type = "PLACE_BET" -> HostPlaceBet(W0, peerId, msg)
    [] msg.type = "RESET_BETS" -> HostResetBets(W0, peerId)
    [] msg.type = "PLAYER_UPDATE" -> HostPlayerUpdate(W0, peerId, msg)
    [] OTHER -> W0

\* ------------------------------------------------------------ transport
HostLive(W) == W.peerRef[HostProc] = "host"

TargetLive(W, code) == HostLive(W) /\ W.attemptCode = code

\* setRole / setMyId: handleHostShake is re-created in the render that follows
\* (its dependencies are role and myId) and closes over that render's bets.
SetSession(W, p, r, room, id) ==
  [W EXCEPT !.role[p] = r, !.roomId[p] = room, !.myId[p] = id,
            !.shakeBets[p] = IF r # W.role[p] \/ id # W.myId[p]
                             THEN W.bets[p] ELSE @]

\* A close handler that forgets the link and the record but keeps the wagers.
HostOnClose_Mut(W, c) ==
  LET W0 == LogEv(W, [ev |-> "linkClosed", id |-> c,
                      sum |-> calculateGlobalBetsFromRef(W.ledger)])
      W1 == IF RegHas(W0.reg, c)
            THEN [broadcast(W0, [type |-> "PLAYER_LEFT",
                                 playerName |-> RegGet(W0.reg, c).name])
                    EXCEPT !.message[HostProc] = "playerLeft"]
            ELSE W0
      W2 == LogEv([W1 EXCEPT !.conns = SelectSeq(@, LAMBDA d : d # c),
                             !.reg = RegDelete(@, c)],
                  [ev |-> "delete", id |-> c])
  IN updateAndBroadcastLeaderboard(updateAndBroadcastGlobalBets(W2))

\* conn.on('close') on the Host's side; the trace keeps the key-wise sum of
\* the Ledger as the handler finds it.
HostOnClose(W, c) ==
  LET W0 == LogEv(W, [ev |-> "linkClosed", id |-> c,
                      sum |-> calculateGlobalBetsFromRef(W.ledger)])
      W1 == IF RegHas(W0.reg, c)
            THEN [broadcast(W0, [type |-> "PLAYER_LEFT",
                                 playerName |-> RegGet(W0.reg, c).name])
                    EXCEPT !.message[HostProc] = "playerLeft"]
            ELSE W0
      W2 == LogEv([W1 EXCEPT !.conns = SelectSeq(@, LAMBDA d : d # c),
                             !.ledger = LedgerDelete(@, c),
                             !.reg = RegDelete(@, c)],
                  [ev |-> "delete", id |-> c])
  IN updateAndBroadcastLeaderboard(updateAndBroadcastGlobalBets(W2))

\* The Host's end of the link to c closes: what c had sent and the Host has
\* not read is lost, and the close handler runs.
HostSideClose(W, c) ==
  IF c \notin W.open THEN W
  ELSE HostOnClose([W EXCEPT !.open = @ \ {c},
                             !.notified = @ \ {c},
                             !.upQ = IF c = "a" THEN <<>> ELSE @], c)

RECURSIVE HostCloseAll(_, _)
HostCloseAll(W, ord) ==
  IF ord = <<>> THEN W
  ELSE HostCloseAll(
         HostSideClose(LogEv(W, [ev |-> "hostClose", to |-> Head(ord), by |-> "destroy"]),
                       Head(ord)),
         Tail(ord))

Orders(S) ==
  {s \in [1..Cardinality(S) -> S] : \A i, j \in 1..Cardinality(S) : s[i] = s[j] => i = j}

\* conn.on('close') on the Client's side.
ClientOnClose(W, p) ==
  [SetSession(W, p, "OFFLINE", "", W.myId[p])
     EXCEPT !.message[p] = "lostHost", !.urlRoom[p] = ""]

\* A destroy() that also clears the page's pending outcome timer.
PeerDestroy_Mut(W, p, ord) ==
  LET W0 == [W EXCEPT !.shakeTimer[p] = NoTimer] IN
  CASE W.peerRef[p] = "host" ->
         [HostCloseAll(W0, ord) EXCEPT !.peerRef[p] = "dead"]
    [] W.peerRef[p] = "client" ->
         LET W1 == [W0 EXCEPT !.peerRef[p] = "dead", !.cLink[p] = "none",
                              !.downQ = IF p = "a" THEN <<>> ELSE @]
         IN IF W.cLink[p] = "open" THEN ClientOnClose(W1, p) ELSE W1
    [] OTHER -> W0

\* peerRef.current.destroy(): every link of the peer that is open closes and
\* its close handler runs before destroy() returns; ord is the order in which
\* a Host peer closes its links.
PeerDestroy(W, p, ord) ==
  CASE W.peerRef[p] = "host" ->
         [HostCloseAll(W, ord) EXCEPT !.peerRef[p] = "dead"]
    [] W.peerRef[p] = "client" ->
         LET W1 == [W EXCEPT !.peerRef[p] = "dead", !.cLink[p] = "none",
                             !.downQ = IF p = "a" THEN <<>> ELSE @]
         IN IF W.cLink[p] = "open" THEN ClientOnClose(W1, p) ELSE W1
    [] OTHER -> W

\* ------------------------------------------------------------ effects
\* The effect "Sync my info to Host whenever balance changes", run for a
\* render with the values r (role), id (myId) and b (balance).
SyncEffect(W, p, r, id, b) ==
  IF r = "CLIENT" /\ id # ""
  THEN IF b < MIN_BALANCE_TO_STAY
       THEN [W EXCEPT !.message[p] = "outOfMoneyLeaving", !.leaveTimer[p] = TRUE]
       ELSE IF p = "a" /\ W.cLink[p] = "open"
            THEN [W EXCEPT !.upQ = Append(@,
                    [type |-> "PLAYER_UPDATE",
                     info |-> [id |-> id, name |-> PlayerName(p),
                               balance |-> b, isHost |-> FALSE]])]
            ELSE W
  ELSE IF r = "HOST" /\ id # ""
  THEN LET W1 == [W EXCEPT !.reg = RegSet(@, id,
                     [id |-> id, name |-> PlayerName(p), balance |-> b,
                      isHost |-> TRUE])]
       IN checkAndKickBrokePlayers(updateAndBroadcastLeaderboard(W1), r)
  ELSE W

\* joinRoomAsClient(targetRoomId) of a render with balance b and bets w.
joinRoomAsClient(W, p, target, b, w) ==
  IF b < MIN_BALANCE_TO_JOIN
  THEN [W EXCEPT !.message[p] = "needMinimum", !.urlRoom[p] = ""]
  ELSE LET W1 == PeerDestroy(W, p, <<>>)
       IN [W1 EXCEPT !.conns = IF p = HostProc THEN <<>> ELSE @,
                     !.cLink[p] = "none",
                     !.pendingPeer[p] = "client",
                     !.joinTarget[p] = target,
                     !.joinBal[p] = b,
                     !.joinBets[p] = w]

\* The initialisation effect (it depends on joinRoomAsClient, which is
\* re-created whenever balance changes): the body that follows the cleanup.
InitEffect(W, p, b, w) ==
  IF W.urlRoom[p] # "" THEN joinRoomAsClient(W, p, W.urlRoom[p], b, w) ELSE W

\* What runs after a render in which balance changed: the cleanup of the
\* initialisation effect (peerRef.current.destroy()), then the bodies of the
\* two effects, each with the values of that render.
BalanceEffects(W, p, ord) ==
  LET r == W.role[p]
      id == W.myId[p]
      b == W.balance[p]
      w == W.bets[p]
      W1 == PeerDestroy(W, p, ord)
      W2 == SyncEffect(W1, p, r, id, b)
  IN InitEffect(W2, p, b, w)

\* calculateWinnings(results), closing over the wagers w.  startBal keeps
\* the balance the page has once the round is settled.
calculateWinnings(W, p, w, results) ==
  LET ret == totalReturn(w, results) IN
  [W EXCEPT !.balance[p] = @ + ret,
            !.startBal[p] = W.balance[p] + ret,
            !.resultState[p] = [set |-> TRUE, winAmount |-> ret,
                                totalBet |-> TotalBet(w), results |-> results],
            !.bets[p] = getEmptyBets,
            !.message[p] = "result"]

\* A mirror that adds the received aggregate to the one it holds.
setGlobalBets_Mut(W, p, v) ==
  [W EXCEPT !.globalBets[p] = [k \in GameItemKey |-> @[k] + v[k]]]

\* The state setters of the two mirrors: the new value replaces the old one.
setGlobalBets(W, p, v) == [W EXCEPT !.globalBets[p] = v]

\* A leaderboard mirror that keeps what it first showed.
setLeaderboard_Mut(W, p, v) ==
  IF W.leaderboard[p] = <<>> THEN [W EXCEPT !.leaderboard[p] = v] ELSE W

setLeaderboard(W, p, v) == [W EXCEPT !.leaderboard[p] = v]

\* A Client that settles against an outcome of its own.
ClientSettle_Mut(W, p, msg) ==
  LET own == <<GAME_ITEMS[1], GAME_ITEMS[1], GAME_ITEMS[1]>> IN
  calculateWinnings([W EXCEPT !.isShaking[p] = FALSE, !.diceResult[p] = own],
                    p, W.joinBets[p], own)

\* The SHAKE_RESULT branch of handleClientReceivedMessage: the outcome shown
\* and settled is the one of the message.
ClientSettle(W, p, msg) ==
  calculateWinnings([W EXCEPT !.isShaking[p] = FALSE,
                              !.diceResult[p] = msg.results],
                    p, W.joinBets[p], msg.results)

\* handleClientReceivedMessage(msg); the function is the one of the render in
\* which joinRoomAsClient was created, so its calculateWinnings closes over
\* that render's bets (joinBets).
handleClientReceivedMessage(W, p, msg) ==
  CASE msg.type = "JOIN_ACCEPTED" ->
         [setLeaderboard(setGlobalBets(W, p, msg.roomState.globalBets),
                         p, msg.roomState.players)
            EXCEPT !.message[p] = "joinedRoom"]
    [] msg.type = "JOIN_REJECTED" ->
         [W EXCEPT !.message[p] = "rejected", !.leaveTimer[p] = TRUE]
    [] msg.type = "KICKED_NO_MONEY" ->
         [W EXCEPT !.message[p] = "outOfMoneyLeaving", !.leaveTimer[p] = TRUE]
    [] msg.type = "PLAYER_JOINED" -> [W EXCEPT !.message[p] = "playerJoined"]
    [] msg.type = "PLAYER_LEFT" -> [W EXCEPT !.message[p] = "playerLeft"]
    [] msg.type = "SHAKE_START" ->
         [W EXCEPT !.isShaking[p] = TRUE, !.resultState[p] = NoResult,
                   !.message[p] = "hostShaking"]
    [] msg.type = "SHAKE_RESULT" -> ClientSettle(W, p, msg)
    [] msg.type = "UPDATE_GLOBAL_BETS" -> setGlobalBets(W, p, msg.bets)
    [] msg.type = "LEADERBOARD_UPDATE" -> setLeaderboard(W, p, msg.players)
    [] OTHER -> W

\* ------------------------------------------------------------ initial state
\* The page of "h" is mounted, opened without a room parameter; "a" holds the
\* initial state of App and mounts when its user opens the invitation link.
InitRest ==
  /\ role = [p \in Procs |-> "OFFLINE"]
  /\ roomId = [p \in Procs |-> ""]
  /\ myId = [p \in Procs |-> ""]
  /\ balance = [p \in Procs |-> INITIAL_BALANCE]
  /\ globalBets = [p \in Procs |-> getEmptyBets]
  /\ leaderboard = [p \in Procs |-> <<>>]
  /\ isShaking = [p \in Procs |-> FALSE]
  /\ diceResult = [p \in Procs |-> <<"NAI", "BAU", "GA">>]
  /\ resultState = [p \in Procs |-> NoResult]
  /\ message = [p \in Procs |-> "welcome"]
  /\ urlRoom = [p \in Procs |-> ""]
  /\ handlerRole = "OFFLINE"
  /\ shakeBets = [p \in Procs |-> getEmptyBets]
  /\ joinBal = [p \in Procs |-> INITIAL_BALANCE]
  /\ joinBets = [p \in Procs |-> getEmptyBets]
  /\ joinTarget = [p \in Procs |-> ""]
  /\ peerRef = [p \in Procs |-> "none"]
  /\ pendingPeer = [p \in Procs |-> "none"]
  /\ attemptCode = ""
  /\ cLink = [p \in Procs |-> "none"]
  /\ conns = <<>>
  /\ ledger = EmptyLedger
  /\ reg = <<>>
  /\ open = {}
  /\ timers = {}
  /\ shakeTimer = [p \in Procs |-> NoTimer]
  /\ leaveTimer = [p \in Procs |-> FALSE]
  /\ upQ = <<>>
  /\ downQ = <<>>
  /\ rounds = [p \in Procs |-> 0]
  /\ rooms = 0
  /\ notified = {}
  /\ startBal = [p \in Procs |-> INITIAL_BALANCE]
  /\ log = <<>>

Init == InitRest /\ bets = [p \in Procs |-> getEmptyBets]

\* The orders in which destroy() may close the links of the peer of p.
DestroyOrders(p) == IF peerRef[p] = "host" THEN Orders(open) ELSE {<<>>}

\* The Host starts a handler only when "a" has read what was sent to it.
QueueRoom == Len(downQ) <= MaxQueue

\* A user places a wager only while he is less than n stakes below the
\* initial balance, and acts only when no Peer of his page is being created.
MayWager(p, n) ==
  /\ balance[p] > INITIAL_BALANCE - n * BET_INCREMENT
  /\ pendingPeer[p] = "none"

\* ------------------------------------------------------------ user actions
\* The user of "a" opens the invitation link ?room=LinkCode: App mounts and
\* its initialisation effect calls joinRoomAsClient(LinkCode).
OpenInvitation(p) ==
  /\ p = "a"
  /\ QueueRoom
  /\ peerRef[p] = "none" /\ pendingPeer[p] = "none"
  /\ Commit(InitEffect([World EXCEPT !.urlRoom[p] = LinkCode], p, balance[p], bets[p]))

\* handleCreateRoomAction -> initHostPeer(random code).  The button is shown
\* while roomId is null and enabled while balance >= MIN_BALANCE_TO_JOIN.
CreateRoom ==
  /\ QueueRoom
  /\ roomId[HostProc] = ""
  /\ balance[HostProc] >= MIN_BALANCE_TO_JOIN
  /\ pendingPeer[HostProc] = "none"
  /\ rooms < MaxRooms
  /\ \E code \in Codes :
       LET W1 == PeerDestroy(World, HostProc, <<>>)
       IN Commit([W1 EXCEPT !.message[HostProc] = "initialising",
                            !.conns = <<>>,
                            !.ledger = EmptyLedger,
                            !.reg = <<>>,
                            !.pendingPeer[HostProc] = "host",
                            !.attemptCode = code,
                            !.rooms = @ + 1,
                            !.handlerRole = role[HostProc]])

\* A check that lets a peer without money stake.
CanAfford_Mut(b) == b >= 0

\* handlePlaceBet goes on only with a balance of at least one stake.
CanAfford(b) == b >= BET_INCREMENT

\* The disabled prop of BettingBoard: no wager while shaking, nor on a page
\* that is OFFLINE and has no room.
BoardEnabled(p) == ~isShaking[p] /\ ~(role[p] = "OFFLINE" /\ roomId[p] = "")

\* handlePlaceBet(key), then the effects of the render it causes.  The board
\* is disabled while shaking and while the page is OFFLINE without a room.
PlaceBetWithin(p, key, n) ==
  /\ BoardEnabled(p)
  /\ MayWager(p, n)
  /\ QueueRoom
  /\ \E ord \in DestroyOrders(p) :
       IF ~CanAfford(balance[p])
       THEN Commit(LogEv([World EXCEPT !.message[p] = "outOfMoney"],
                         [ev |-> "placeBet", at |-> p, key |-> key]))
       ELSE
       LET W1 == LogEv([World EXCEPT !.balance[p] = @ - BET_INCREMENT,
                                     !.bets[p][key] = @ + BET_INCREMENT],
                       [ev |-> "placeBet", at |-> p, key |-> key])
           W2 == CASE role[p] = "CLIENT" ->
                        IF p = "a" /\ cLink[p] = "open"
                        THEN [W1 EXCEPT !.upQ = Append(@,
                               [type |-> "PLACE_BET", key |-> key,
                                amount |-> BET_INCREMENT])]
                        ELSE W1
                   [] role[p] = "HOST" ->
                        LET hostBets == LedgerGet(W1.ledger, myId[p]) IN
                        updateAndBroadcastGlobalBets(
                          [W1 EXCEPT !.ledger = LedgerSet(@, myId[p],
                             [hostBets EXCEPT ![key] = @ + BET_INCREMENT])])
                   [] OTHER -> W1
       IN Commit(BalanceEffects(W2, p, ord))

PlaceBet(p, key) == PlaceBetWithin(p, key, MaxWagers)

\* The same handler for a user who goes on staking on the first item until
\* his money is gone.
DeepWager(p) == PlaceBetWithin(p, GAME_ITEMS[1], MaxDeepWagers)

\* handleResetBets, then the effects of the render it causes.  The button is
\* disabled while shaking or while nothing is wagered.
ResetBets(p) ==
  /\ ~isShaking[p]
  /\ TotalBet(bets[p]) > 0
  /\ pendingPeer[p] = "none"
  /\ QueueRoom
  /\ \E ord \in DestroyOrders(p) :
       LET W1 == LogEv([World EXCEPT !.balance[p] = @ + TotalBet(bets[p]),
                                     !.bets[p] = getEmptyBets,
                                     !.message[p] = "refunded"],
                       [ev |-> "resetBets", at |-> p])
           W2 == CASE role[p] = "CLIENT" ->
                        IF p = "a" /\ cLink[p] = "open"
                        THEN [W1 EXCEPT !.upQ = Append(@, [type |-> "RESET_BETS"])]
                        ELSE W1
                   [] role[p] = "HOST" ->
                        updateAndBroadcastGlobalBets(
                          [W1 EXCEPT !.ledger = LedgerSet(@, myId[p], getEmptyBets)])
                   [] OTHER -> W1
       IN Commit(BalanceEffects(W2, p, ord))

\* A shake button that can be pressed while the bowl is shaking.
ShakeEnabled_Mut(p) == role[p] # "CLIENT"

\* The shake button: a Client sees a disabled button without handler, the
\* others a button disabled while shaking.
ShakeEnabled(p) == ~isShaking[p] /\ role[p] # "CLIENT"

\* A handleHostShake that goes on for every page that is no Client.
MayShake_Mut(r) == r # "CLIENT"

\* handleHostShake goes on only with role HOST.
MayShake(r) == r = "HOST"

\* handleHostShake: the function returns at once unless role is HOST.  The
\* timer keeps the closure of the call, whose calculateWinnings reads
\* shakeBets.  A page starts at most n rounds.
HostShakeWithin(p, n) ==
  /\ ShakeEnabled(p)
  /\ QueueRoom
  /\ IF ~MayShake(role[p])
     THEN Commit(LogEv(World, [ev |-> "shake", at |-> p]))
     ELSE /\ rounds[p] < n
          /\ LET W1 == [LogEv(World, [ev |-> "shake", at |-> p])
                         EXCEPT !.isShaking[p] = TRUE,
                                !.rounds[p] = @ + 1,
                                !.resultState[p] = NoResult,
                                !.message[p] = "shaking"]
                 W2 == broadcast(W1, [type |-> "SHAKE_START"])
             IN Commit([W2 EXCEPT !.shakeTimer[p] =
                                    [on |-> TRUE, bets |-> shakeBets[p]]])

HostShake(p) == HostShakeWithin(p, MaxRounds)

\* A reset of the wagers that forgets who was playing.
ClearLedger_Mut(l) == [id \in {} |-> getEmptyBets]

\* The timer callback's reset of allPlayersBetsRef: every key keeps its
\* place and gets the empty vector.
ClearLedger(l) == [id \in DOMAIN l |-> getEmptyBets]

\* The SHAKE_DURATION timer of page p has run out and its callback can run.
TimerReady(p) == shakeTimer[p].on /\ pendingPeer[p] = "none" /\ QueueRoom

\* The callback of the SHAKE_DURATION timer, then the effects of the render.
ShakeTimerFire(p) ==
  /\ TimerReady(p)
  /\ \E results \in Outcomes, ord \in DestroyOrders(p) :
       LET W1 == [LogEv(World, [ev |-> "draw", at |-> p, results |-> results])
                    EXCEPT !.shakeTimer[p] = NoTimer,
                               !.diceResult[p] = results,
                               !.isShaking[p] = FALSE]
           W2 == broadcast(W1, [type |-> "SHAKE_RESULT", results |-> results])
           W3 == calculateWinnings(W2, p, shakeTimer[p].bets, results)
           W4 == updateAndBroadcastGlobalBets(
                   LogEv([W3 EXCEPT !.ledger = ClearLedger(@)],
                         [ev |-> "clear", ledger |-> ClearLedger(W3.ledger)]))
       IN Commit(IF W4.balance[p] # balance[p]
                 THEN BalanceEffects(W4, p, ord) ELSE W4)

\* ------------------------------------------------------------ peer events
\* peer.on('open') of the Peer made by initHostPeer, then the effects of the
\* render it causes (role and myId changed: the sync effect runs).
HostPeerOpen ==
  /\ QueueRoom
  /\ pendingPeer[HostProc] = "host"
  /\ LET p == HostProc
         fullId == resolveRoom(attemptCode)
         W1 == SetSession(World, p, "HOST", attemptCode, fullId)
         W2 == [W1 EXCEPT !.peerRef[p] = "host",
                          !.pendingPeer[p] = "none",
                          !.message[p] = "roomCreated",
                          !.ledger = LedgerSet(@, fullId, getEmptyBets),
                          !.reg = RegSet(@, fullId,
                             [id |-> fullId, name |-> PlayerName(p),
                              balance |-> balance[p], isHost |-> TRUE])]
         W3 == [updateAndBroadcastLeaderboard(W2) EXCEPT !.urlRoom[p] = attemptCode]
     IN Commit(IF role[p] # "HOST" \/ myId[p] # fullId
               THEN SyncEffect(W3, p, "HOST", fullId, balance[p]) ELSE W3)

\* peer.on('open') of the Peer made by joinRoomAsClient: the page becomes a
\* CLIENT and dials the room; no link can come up to a room nobody hosts.
PeerOpenClient(p) ==
  /\ QueueRoom
  /\ pendingPeer[p] = "client"
  /\ LET W1 == SetSession(World, p, "CLIENT", joinTarget[p], p)
         W2 == [W1 EXCEPT !.peerRef[p] = "client",
                          !.pendingPeer[p] = "none",
                          !.message[p] = "connecting",
                          !.conns = IF p = HostProc THEN <<>> ELSE @,
                          !.cLink[p] = IF p # HostProc /\ TargetLive(World, joinTarget[p])
                                       THEN "dialing" ELSE "unavailable"]
     IN Commit(SyncEffect(W2, p, "CLIENT", p, balance[p]))

\* peer.on('error') of a client Peer (peer-unavailable).
PeerError(p) ==
  /\ QueueRoom
  /\ peerRef[p] = "client"
  /\ \/ cLink[p] = "unavailable"
     \/ cLink[p] = "dialing" /\ ~TargetLive(World, joinTarget[p])
  /\ Commit([SetSession(World, p, "OFFLINE", "", myId[p])
               EXCEPT !.message[p] = "roomNotFound",
                      !.urlRoom[p] = "",
                      !.cLink[p] = "none"])

\* conn.on('open') on the Client's side: JOIN_REQUEST carries the balance of
\* the render in which joinRoomAsClient was created.
LinkOpen(p) ==
  /\ p = "a"
  /\ QueueRoom
  /\ cLink[p] = "dialing"
  /\ TargetLive(World, joinTarget[p])
  /\ p \notin open /\ p \notin timers
  /\ Commit([World EXCEPT !.cLink[p] = "open",
                          !.open = @ \cup {p},
                          !.message[p] = "askingToJoin",
                          !.upQ = <<[type |-> "JOIN_REQUEST",
                                     playerInfo |-> [id |-> myId[p],
                                                     name |-> PlayerName(p),
                                                     balance |-> joinBal[p],
                                                     isHost |-> FALSE]]>>])

\* conn.on('data') on the Host's side, for a message of "a".
HostRecv ==
  /\ upQ # <<>>
  /\ "a" \in open
  /\ HostLive(World)
  /\ QueueRoom
  /\ Commit(handleHostReceivedMessage([World EXCEPT !.upQ = Tail(@)], "a", Head(upQ)))

\* conn.on('data') on the Client's side, then (when the balance changed) the
\* effects of the render.
ClientRecv(p) ==
  /\ p = "a"
  /\ downQ # <<>>
  /\ cLink[p] = "open"
  /\ LET W0 == LogEv([World EXCEPT !.downQ = Tail(@)],
                      [ev |-> "handle", at |-> p, msg |-> Head(downQ)])
         W1 == handleClientReceivedMessage(W0, p, Head(downQ))
     IN Commit(IF W1.balance[p] # balance[p]
               THEN BalanceEffects(W1, p, <<>>) ELSE W1)

\* A remote endpoint opens a link to the Host's peer.
ForeignConnect(x) ==
  /\ QueueRoom
  /\ HostLive(World)
  /\ x \notin open /\ x \notin timers
  /\ Commit([World EXCEPT !.open = @ \cup {x}])

\* The balances a remote endpoint may announce: each threshold and the value
\* just below it.
JoinBalances == {MIN_BALANCE_TO_JOIN - 1, MIN_BALANCE_TO_JOIN}

UpdateBalances == {MIN_BALANCE_TO_STAY - 1, MIN_BALANCE_TO_STAY}

\* How often c is in the Host's link list.
Count(cs, c) == Len(SelectSeq(cs, LAMBDA d : d = c))

ForeignInfo(x, b) == [id |-> x, name |-> PlayerName(x), balance |-> b, isHost |-> FALSE]

ForeignMsgs(x) ==
  {[type |-> "JOIN_REQUEST", playerInfo |-> ForeignInfo(x, b)] : b \in JoinBalances}
  \cup {[type |-> "PLAYER_UPDATE", info |-> ForeignInfo(x, b)] : b \in UpdateBalances}
  \cup {[type |-> "PLACE_BET", key |-> k, amount |-> BET_INCREMENT] : k \in UsedKeys}
  \cup {[type |-> "RESET_BETS"]}

\* What a remote endpoint that joins with enough money and only wagers sends.
WagerMsgs(x) ==
  {m \in ForeignMsgs(x) :
     /\ m.type # "PLAYER_UPDATE"
     /\ m.type = "JOIN_REQUEST" => m.playerInfo.balance >= MIN_BALANCE_TO_JOIN}

\* conn.on('data') on the Host's side, for a message out of msgs sent by a
\* remote endpoint that holds at most n wagers at once.
ForeignSendOf(x, msgs, n) ==
  /\ x \in open
  /\ HostLive(World)
  /\ QueueRoom
  /\ \E m \in msgs :
       /\ m.type = "PLACE_BET" =>
            TotalBet(LedgerGet(ledger, x)) < n * BET_INCREMENT
       /\ m.type = "JOIN_REQUEST" => Count(conns, x) < MaxJoins
       /\ Commit(handleHostReceivedMessage(World, x, m))

ForeignSend(x) == ForeignSendOf(x, ForeignMsgs(x), MaxWagers)

\* The Host learns that the other end of a link is gone.
HostConnClose(c) ==
  /\ QueueRoom
  /\ c \in open
  /\ c = "a" => cLink["a"] # "open"
  /\ Commit(HostSideClose(World, c))

\* setTimeout(() => conn.close(), 500) on the Host.
CloseTimerFire(c) ==
  /\ QueueRoom
  /\ c \in timers
  /\ LET W1 == [World EXCEPT !.timers = @ \ {c}]
     IN Commit(IF c \in open
               THEN HostSideClose(LogEv(W1, [ev |-> "hostClose", to |-> c, by |-> "timer"]), c)
               ELSE W1)

\* The Client learns that the Host's end of its link is gone.
ClientConnClose(p) ==
  /\ p = "a"
  /\ cLink[p] = "open"
  /\ p \notin open
  /\ Commit(ClientOnClose([World EXCEPT !.cLink[p] = "none", !.downQ = <<>>], p))

\* The timer a Client sets when it runs out of money, is rejected or is
\* expelled: destroy the peer and go OFFLINE.
LeaveTimerFire(p) ==
  /\ QueueRoom
  /\ leaveTimer[p]
  /\ pendingPeer[p] = "none"
  /\ LET W1 == PeerDestroy([World EXCEPT !.leaveTimer[p] = FALSE], p, <<>>)
     IN Commit([SetSession(W1, p, "OFFLINE", "", myId[p])
                  EXCEPT !.urlRoom[p] = "", !.message[p] = "removed"])

\* What the page of the Host, the remote endpoints and the page of the
\* invited Client do.
HostPage ==
  \/ CreateRoom
  \/ HostPeerOpen
  \/ PeerOpenClient(HostProc)
  \/ PeerError(HostProc)
  \/ \E key \in UsedKeys : PlaceBet(HostProc, key)
  \/ ResetBets(HostProc)
  \/ HostShake(HostProc)
  \/ ShakeTimerFire(HostProc)

Remote ==
  \/ \E x \in Foreign : ForeignConnect(x)
  \/ \E x \in Foreign : ForeignSend(x)
  \/ \E x \in Foreign : HostConnClose(x)
  \/ \E x \in Foreign : CloseTimerFire(x)

ClientPage ==
  \/ OpenInvitation("a")
  \/ PeerOpenClient("a")
  \/ PeerError("a")
  \/ LinkOpen("a")
  \/ HostRecv
  \/ ClientRecv("a")
  \/ HostConnClose("a")
  \/ ClientConnClose("a")
  \/ \E key \in UsedKeys : PlaceBet("a", key)
  \/ ResetBets("a")

Next ==
  \/ HostPage
  \/ Remote
  \/ ClientPage
  \/ CloseTimerFire("a")
  \/ \E p \in Procs : LeaveTimerFire(p)

Spec == Init /\ [][Next]_vars

\* The Host's page serving remote endpoints; nobody opens the invitation link.
HostSpec == Init /\ [][HostPage \/ Remote]_vars

\* The Host's page and the page of the invited Client, no other endpoint.
ClientSpec == Init /\ [][HostPage \/ ClientPage]_vars

\* The Host's page alone, its user staking until his money is gone.
DeepNext ==
  \/ CreateRoom
  \/ HostPeerOpen
  \/ PeerOpenClient(HostProc)
  \/ PeerError(HostProc)
  \/ DeepWager(HostProc)
  \/ ResetBets(HostProc)
  \/ HostShake(HostProc)
  \/ ShakeTimerFire(HostProc)
  \/ LeaveTimerFire(HostProc)

DeepSpec == Init /\ [][DeepNext]_vars

\* The HOST branch of the sync effect from its call of
\* checkAndKickBrokePlayers on, for a render whose role is HOST.
EvictionMonitor ==
  /\ QueueRoom
  /\ role[HostProc] = "HOST"
  /\ Commit(checkAndKickBrokePlayers(
              LogEv(World, [ev |-> "monitor", at |-> HostProc]), role[HostProc]))

Members == {AllForeign[i] : i \in 1..NumMembers}

\* A room of remote endpoints over which the Eviction Monitor runs.
MonitorNext ==
  \/ CreateRoom
  \/ HostPeerOpen
  \/ \E x \in Members : ForeignConnect(x)
  \/ \E x \in Members : ForeignSend(x)
  \/ \E x \in Members : CloseTimerFire(x)
  \/ EvictionMonitor

MonitorSpec == Init /\ [][MonitorNext]_vars

\* A room in which remote endpoints wager and the invited Client joins; the
\* users of the two pages place no wager.
AdmissionNext ==
  \/ CreateRoom
  \/ HostPeerOpen
  \/ Remote
  \/ OpenInvitation("a")
  \/ PeerOpenClient("a")
  \/ PeerError("a")
  \/ LinkOpen("a")
  \/ HostRecv
  \/ ClientRecv("a")

AdmissionSpec == Init /\ [][AdmissionNext]_vars

\* A room whose remote members place and cancel several wagers each, and
\* whose Host does the same on its own page.
LedgerNext ==
  \/ CreateRoom
  \/ HostPeerOpen
  \/ PeerOpenClient(HostProc)
  \/ PeerError(HostProc)
  \/ \E key \in UsedKeys : PlaceBetWithin(HostProc, key, MaxMemberWagers)
  \/ ResetBets(HostProc)
  \/ \E x \in Members : ForeignConnect(x)
  \/ \E x \in Members : ForeignSendOf(x, WagerMsgs(x), MaxMemberWagers)
  \/ \E x \in Members : HostConnClose(x)

LedgerSpec == Init /\ [][LedgerNext]_vars

\* The Host's page starting several rounds while remote endpoints come and go.
RoundNext ==
  \/ CreateRoom
  \/ HostPeerOpen
  \/ PeerOpenClient(HostProc)
  \/ PeerError(HostProc)
  \/ \E key \in UsedKeys : PlaceBet(HostProc, key)
  \/ ResetBets(HostProc)
  \/ HostShakeWithin(HostProc, MaxShakes)
  \/ ShakeTimerFire(HostProc)
  \/ \E x \in Foreign : ForeignConnect(x)
  \/ \E x \in Foreign : ForeignSendOf(x, WagerMsgs(x), MaxWagers)
  \/ \E x \in Foreign : HostConnClose(x)

RoundSpec == Init /\ [][RoundNext]_vars

\* The Host serving remote endpoints and the invited Client and running
\* rounds, none of the two pages wagering.  The Client's conn.on('data')
\* runs for every message that has arrived: the event loop starves no event.
MirrorNext ==
  \/ AdmissionNext
  \/ HostShake(HostProc)
  \/ ShakeTimerFire(HostProc)

\* What a remote endpoint sends that joins once with enough money and then
\* reports that it went broke.
CrowdMsgs(x) ==
  {m \in ForeignMsgs(x) :
     /\ m.type \in {"JOIN_REQUEST", "PLAYER_UPDATE"}
     /\ m.type = "JOIN_REQUEST" => m.playerInfo.balance >= MIN_BALANCE_TO_JOIN
     /\ m.type = "PLAYER_UPDATE" => m.info.balance < MIN_BALANCE_TO_STAY}

Crowd == {AllForeign[i] : i \in 1..NumCrowd}

\* conn.on('data') on the Host's side for a member of the crowd.
CrowdSend(x) ==
  /\ x \in open
  /\ HostLive(World)
  /\ QueueRoom
  /\ \E m \in CrowdMsgs(x) :
       /\ m.type = "JOIN_REQUEST" => Count(conns, x) = 0
       /\ m.type = "PLAYER_UPDATE" => RegHas(reg, x)
       /\ Commit(handleHostReceivedMessage(World, x, m))

\* A room of NumCrowd remote members, some of them reporting a balance
\* below the threshold, over which the Eviction Monitor runs.
CrowdNext ==
  \/ CreateRoom
  \/ HostPeerOpen
  \/ \E x \in Crowd : ForeignConnect(x)
  \/ \E x \in Crowd : CrowdSend(x)
  \/ \E x \in Crowd : CloseTimerFire(x)
  \/ EvictionMonitor

CrowdSpec == Init /\ [][CrowdNext]_vars

\* RoundSpec with the timer and the events of a Peer under construction
\* never starved: setTimeout fires after SHAKE_DURATION, and PeerJS reports
\* 'open' or 'error' for every Peer it is asked to create.  The weak
\* fairness of the timer is written out, TimerReady being the condition
\* under which ShakeTimerFire is enabled.
RoundLiveSpec ==
  /\ RoundSpec
  /\ \/ []<>(~TimerReady(HostProc))
     \/ []<><<ShakeTimerFire(HostProc)>>_vars
  /\ WF_vars(HostPeerOpen)
  /\ WF_vars(PeerOpenClient(HostProc))

MirrorSpec == Init /\ [][MirrorNext]_vars /\ WF_vars(ClientRecv("a"))

\* ------------------------------------------------------------ properties
\* The running handler's trace l shows a message of type t sent to c.
SentTo(l, c, t) ==
  \E i \in 1..Len(l) : l[i].ev = "send" /\ l[i].to = c /\ l[i].msg.type = t

\* The trace l is that of the Host handling a message of type t.
Handled(l, t) == Len(l) > 0 /\ l[1].ev = "recv" /\ l[1].msg.type = t

\* C1: whenever the Host handles a JOIN_REQUEST, the candidate is admitted
\* (put into the Registry, the Ledger and the link list, and sent
\* JOIN_ACCEPTED) if and only if its balance is at least MIN_BALANCE_TO_JOIN;
\* below it the Host answers JOIN_REJECTED with a reason and leaves Registry,
\* Ledger and link list as they were.
C1_Admission ==
  [][Handled(log', "JOIN_REQUEST") =>
       LET c == log'[1].from
           info == log'[1].msg.playerInfo
       IN IF info.balance >= MIN_BALANCE_TO_JOIN
          THEN /\ RegHas(reg', c) /\ RegGet(reg', c) = info
               /\ c \in DOMAIN ledger'
               /\ Count(conns', c) = Count(conns, c) + 1
               /\ SentTo(log', c, "JOIN_ACCEPTED")
               /\ ~SentTo(log', c, "JOIN_REJECTED")
          ELSE /\ \E i \in 1..Len(log') :
                    /\ log'[i].ev = "send" /\ log'[i].to = c
                    /\ log'[i].msg.type = "JOIN_REJECTED"
                    /\ log'[i].msg.reason = MIN_BALANCE_TO_JOIN
               /\ ~SentTo(log', c, "JOIN_ACCEPTED")
               /\ reg' = reg /\ ledger' = ledger /\ conns' = conns]_vars

\* A candidate with exactly MIN_BALANCE_TO_JOIN has just been admitted.
C1_Witness ==
  /\ Handled(log, "JOIN_REQUEST")
  /\ log[1].msg.playerInfo.balance = MIN_BALANCE_TO_JOIN
  /\ SentTo(log, log[1].from, "JOIN_ACCEPTED")
  /\ RegHas(reg, log[1].from)

\* C2: after any sequence of joins, wagers, resets, departures, rounds and
\* room (re)creations the Host's aggregate view equals, key by key, the sum
\* over all Ledger entries, and so does the aggregate carried by every
\* UPDATE_GLOBAL_BETS and every JOIN_ACCEPTED at the moment it is sent.
C2_AggregateIsLedgerSum ==
  /\ role[HostProc] = "HOST" =>
        globalBets[HostProc] = calculateGlobalBetsFromRef(ledger)
  /\ \A i \in 1..Len(log) :
        log[i].ev = "send" =>
          /\ log[i].msg.type = "UPDATE_GLOBAL_BETS" => log[i].msg.bets = log[i].sum
          /\ log[i].msg.type = "JOIN_ACCEPTED" =>
                log[i].msg.roomState.globalBets = log[i].sum

\* calculateWinnings on its own: both pages hold the same wagers, drawn from
\* a small set, and settle them against the same outcome, any three items.
StakeValues == {0, 1000, BET_INCREMENT}

WagerVectors ==
  {w \in [GameItemKey -> StakeValues] : \A k \in GameItemKey \ UsedKeys : w[k] = 0}

AllOutcomes == [1..3 -> GameItemKey]

InitSettle == InitRest /\ \E w \in WagerVectors : bets = [p \in Procs |-> w]

SettleAll ==
  /\ \A p \in Procs : ~resultState[p].set
  /\ \E results \in AllOutcomes :
       Commit(calculateWinnings(
                calculateWinnings(World, HostProc, bets[HostProc], results),
                "a", bets["a"], results))

WinningsSpec == InitSettle /\ [][SettleAll]_vars

\* C3: settlement returns, for every wager vector w and outcome r, the sum
\* over the item keys of w[k] * (1 + appearances of k in r) for the keys that
\* appear and 0 for the others, so that a stake of 1000 alone returns 0, 2000,
\* 3000 or 4000 for 0, 1, 2 or 3 appearances; the return depends on (w, r)
\* only: the Host and a Client holding the same wagers get the same return.
C3_Settlement ==
  [][\A p \in Procs :
       ~resultState[p].set /\ resultState'[p].set =>
         LET w == bets[p]
             r == resultState'[p].results
             n(k) == Cardinality({i \in 1..3 : r[i] = k})
             due == SumOver([k \in GameItemKey |->
                               IF n(k) > 0 THEN w[k] * (1 + n(k)) ELSE 0],
                            GameItemKey)
         IN /\ resultState'[p].winAmount = due
            /\ balance'[p] = balance[p] + due
            /\ \A k \in GameItemKey :
                 w = [getEmptyBets EXCEPT ![k] = 1000] =>
                   due = <<0, 2000, 3000, 4000>>[n(k) + 1]
            /\ \A q \in Procs :
                 bets[q] = w /\ resultState'[q].set /\ resultState'[q].results = r =>
                   resultState'[q].winAmount = resultState'[p].winAmount]_vars

\* A stake of 1000 on one item and 5000 on another has been settled against
\* an outcome showing the first three times: the return is 4000.
C3_Witness ==
  \E k \in UsedKeys :
    /\ resultState[HostProc].set
    /\ resultState[HostProc].results = <<k, k, k>>
    /\ resultState[HostProc].totalBet = 1000 + BET_INCREMENT
    /\ resultState[HostProc].winAmount = 4000
    /\ resultState["a"].winAmount = 4000

\* The trace l is that of page p handling the message of type t it received.
ClientHandled(l, p, t) ==
  Len(l) > 0 /\ l[1].ev = "handle" /\ l[1].at = p /\ l[1].msg.type = t

\* The trace l is that of the user of p staking on key.
Staked(l, p, key) ==
  Len(l) > 0 /\ l[1].ev = "placeBet" /\ l[1].at = p /\ l[1].key = key

\* C4: the end-to-end scenario, for the admitted Client A = "a" and any item
\* X.  When A, a member with an open link and no wager, stakes BET_INCREMENT
\* on X, its balance drops by the stake, the wager goes to the Host and A
\* stays in the room; the aggregate the Host then broadcasts shows X = 5000;
\* and when A, holding that wager, handles the outcome [X, X, Y], its return
\* is 15000, its balance rises by 15000 and its wagers are all zero.
C4_EndToEnd ==
  [][\A X \in GameItemKey :
       /\ ( /\ Staked(log', "a", X)
            /\ RegHas(reg, "a") /\ cLink["a"] = "open"
            /\ bets["a"] = getEmptyBets )
          => /\ balance'["a"] = balance["a"] - BET_INCREMENT
             /\ bets'["a"] = [getEmptyBets EXCEPT ![X] = BET_INCREMENT]
             /\ upQ' = Append(upQ, [type |-> "PLACE_BET", key |-> X,
                                     amount |-> BET_INCREMENT])
             /\ role'["a"] = "CLIENT" /\ cLink'["a"] = "open"
       /\ ( /\ Handled(log', "PLACE_BET") /\ log'[1].from = "a"
            /\ log'[1].msg.key = X
            /\ calculateGlobalBetsFromRef(ledger) = getEmptyBets )
          => \E i \in 1..Len(log') :
               /\ log'[i].ev = "send" /\ log'[i].to = "a"
               /\ log'[i].msg.type = "UPDATE_GLOBAL_BETS"
               /\ log'[i].msg.bets = [getEmptyBets EXCEPT ![X] = BET_INCREMENT]
       /\ ( /\ ClientHandled(log', "a", "SHAKE_RESULT")
            /\ bets["a"] = [getEmptyBets EXCEPT ![X] = BET_INCREMENT]
            /\ Appearances(log'[1].msg.results, X) = 2 )
          => /\ resultState'["a"].winAmount = 3 * BET_INCREMENT
             /\ balance'["a"] = balance["a"] + 3 * BET_INCREMENT
             /\ bets'["a"] = getEmptyBets]_vars

\* Broadcasts a Client may be handed, whatever its mirror holds.
MirrorPayloads ==
  {[type |-> "UPDATE_GLOBAL_BETS", bets |-> [getEmptyBets EXCEPT ![k] = n]] :
     k \in UsedKeys, n \in {0, BET_INCREMENT}}
  \cup {[type |-> "LEADERBOARD_UPDATE", players |-> ps] :
          ps \in {<<>>, <<[id |-> "a", name |-> PlayerName("a"),
                           balance |-> MIN_BALANCE_TO_JOIN, isHost |-> FALSE]>>}}

\* The mirrors of page p in W are exactly the payload of broadcast m, the
\* other mirror being the one of W0.
MirrorIs(W, W0, p, m) ==
  IF m.type = "UPDATE_GLOBAL_BETS"
    THEN W.globalBets[p] = m.bets /\ W.leaderboard[p] = W0.leaderboard[p]
    ELSE W.leaderboard[p] = m.players /\ W.globalBets[p] = W0.globalBets[p]

\* C5: a Client that handles UPDATE_GLOBAL_BETS (or LEADERBOARD_UPDATE) ends
\* with the mirror equal to the payload whatever it held before, and handling
\* the same broadcast once more changes nothing; the same is true of every
\* broadcast it could be handed in the state it is in.
C5_MirrorOverwrite ==
  [][/\ \A t \in {"UPDATE_GLOBAL_BETS", "LEADERBOARD_UPDATE"} :
          ClientHandled(log', "a", t)
            => /\ MirrorIs(World', World, "a", log'[1].msg)
               /\ handleClientReceivedMessage(World', "a", log'[1].msg) = World'
     /\ \A m \in MirrorPayloads :
          LET W1 == handleClientReceivedMessage(World, "a", m)
              W2 == handleClientReceivedMessage(W1, "a", m)
          IN MirrorIs(W1, World, "a", m) /\ W2 = W1]_vars

\* Client "a" has just replaced a mirror by a broadcast aggregate that is not
\* the empty one it started with.
C5_Witness ==
  /\ ClientHandled(log, "a", "UPDATE_GLOBAL_BETS")
  /\ log[1].msg.bets # getEmptyBets
  /\ globalBets["a"] = log[1].msg.bets

\* C6: when the Host handles a PLAYER_UPDATE of an admitted non-host
\* participant, the participant is removed from Registry and Ledger in that
\* same step if and only if the announced balance is below
\* MIN_BALANCE_TO_STAY (MIN_BALANCE_TO_STAY - 1 is expelled, MIN_BALANCE_TO_STAY
\* stays with the new balance recorded); so after the step no non-host
\* participant of the Registry has a balance below MIN_BALANCE_TO_STAY.
C6_EvictionThreshold ==
  [][( /\ Handled(log', "PLAYER_UPDATE")
       /\ RegHas(reg, log'[1].from)
       /\ ~RegGet(reg, log'[1].from).isHost )
     => LET c == log'[1].from
            b == log'[1].msg.info.balance
        IN /\ (b < MIN_BALANCE_TO_STAY)
                <=> (~RegHas(reg', c) /\ c \notin DOMAIN ledger')
           /\ (b >= MIN_BALANCE_TO_STAY)
                => (RegHas(reg', c) /\ RegGet(reg', c).balance = b)
           /\ \A i \in 1..Len(reg') :
                reg'[i].info.isHost
                \/ reg'[i].info.balance >= MIN_BALANCE_TO_STAY]_vars

\* C7: the Host's own record is never removed: whatever the Host's balance
\* is or becomes (0 and every value below MIN_BALANCE_TO_STAY included), a
\* page that has the HOST role keeps, step after step, its record in the
\* Registry (flagged isHost, with its balance of the moment) and in the
\* Ledger, and keeps the HOST role.
C7_HostStays ==
  [][role[HostProc] = "HOST"
     => LET id == myId[HostProc]
        IN /\ RegHas(reg', id) /\ RegGet(reg', id).isHost
           /\ id \in DOMAIN ledger'
           /\ balance'[HostProc] # balance[HostProc]
                => RegGet(reg', id).balance = balance'[HostProc]
           /\ role'[HostProc] = "HOST"]_vars

\* The trace l is that of a run of the Eviction Monitor.
Monitored(l) == Len(l) > 0 /\ l[1].ev = "monitor"

\* Entry e of a trace is a message of type t sent to c.
IsSend(e, c, t) == e.ev = "send" /\ e.to = c /\ e.msg.type = t

C9_NoticeBeforeTeardown ==
  [][\A i \in 1..Len(log') :
       log'[i].ev = "hostClose" =>
         \/ log'[i].to \in notified
         \/ \E j \in 1..(i - 1), t \in DedicatedTypes :
              IsSend(log'[j], log'[i].to, t)]_vars

\* C10: when the Host admits a candidate c, it sends c exactly one
\* JOIN_ACCEPTED; the aggregate in it is, key by key, the sum of the Ledger
\* and the member list in it is the whole Registry (the Host's record and
\* c's included) as they are once c is recorded; and a Client that handles a
\* JOIN_ACCEPTED has both mirrors equal to what the message carries.
C10_Snapshot ==
  [][/\ ( /\ Handled(log', "JOIN_REQUEST")
          /\ log'[1].msg.playerInfo.balance >= MIN_BALANCE_TO_JOIN )
        => LET c == log'[1].from
               acc == {i \in 1..Len(log') : IsSend(log'[i], c, "JOIN_ACCEPTED")}
           IN /\ Cardinality(acc) = 1
              /\ \A i \in acc :
                   LET snap == log'[i].msg.roomState IN
                   /\ \A k \in GameItemKey :
                        snap.globalBets[k] =
                          SumOver([id \in DOMAIN ledger' |-> ledger'[id][k]],
                                  DOMAIN ledger')
                   /\ snap.players = [j \in 1..Len(reg') |-> reg'[j].info]
                   /\ \E j \in 1..Len(snap.players) : snap.players[j].isHost
                   /\ \E j \in 1..Len(snap.players) :
                        snap.players[j] = log'[1].msg.playerInfo
     /\ ClientHandled(log', "a", "JOIN_ACCEPTED")
        => /\ globalBets'["a"] = log'[1].msg.roomState.globalBets
           /\ leaderboard'["a"] = log'[1].msg.roomState.players]_vars

\* Client "a" has just applied the snapshot of a room in which a wager stands
\* and which has the Host, a remote member and "a" itself as members.
C10_Witness ==
  /\ ClientHandled(log, "a", "JOIN_ACCEPTED")
  /\ globalBets["a"] = calculateGlobalBetsFromRef(ledger)
  /\ globalBets["a"] # getEmptyBets
  /\ leaderboard["a"] = RegValues(reg)
  /\ Len(leaderboard["a"]) = 3

\* C11: when the Host admits a candidate c, PLAYER_JOINED naming c is sent to
\* every member admitted before whose link is open, it is not sent to c, and
\* every such send comes after c was put into Registry and Ledger.
C11_JoinNotice ==
  [][( /\ Handled(log', "JOIN_REQUEST")
       /\ log'[1].msg.playerInfo.balance >= MIN_BALANCE_TO_JOIN )
     => LET c == log'[1].from
            joined == [type |-> "PLAYER_JOINED",
                       playerName |-> log'[1].msg.playerInfo.name]
        IN \E ins \in 1..Len(log') :
             /\ log'[ins].ev = "insert" /\ log'[ins].id = c
             /\ RegHas(reg', c) /\ c \in DOMAIN ledger'
             /\ \A m \in (RegKeys(reg) \cap open) \ {c} :
                  \E j \in (ins + 1)..Len(log') :
                    log'[j].ev = "send" /\ log'[j].to = m /\ log'[j].msg = joined
             /\ \A j \in 1..Len(log') :
                  (log'[j].ev = "send" /\ log'[j].msg = joined)
                    => (j > ins /\ log'[j].to # c)]_vars

\* The trace l is that of the Host's close handler for the link to c, run on
\* its own (the other end went away, or the scheduled conn.close() fired).
LinkClosed(l, c) ==
  \/ Len(l) > 0 /\ l[1].ev = "linkClosed" /\ l[1].id = c
  \/ /\ Len(l) > 1 /\ l[1].ev = "hostClose" /\ l[1].by = "timer"
     /\ l[2].ev = "linkClosed" /\ l[2].id = c

\* C12: when the link of an admitted participant c closes, c is gone from
\* Registry, Ledger and link list, the entries of all other participants are
\* as they were, and the UPDATE_GLOBAL_BETS and LEADERBOARD_UPDATE the
\* handler then broadcasts carry the key-wise sum of the Ledger without c and
\* the Registry without c.
C12_LinkClose ==
  [][\A c \in RegKeys(reg) :
       LinkClosed(log', c) =>
         /\ ~RegHas(reg', c) /\ c \notin DOMAIN ledger'
         /\ \A i \in 1..Len(conns') : conns'[i] # c
         /\ reg' = SelectSeq(reg, LAMBDA e : e.key # c)
         /\ DOMAIN ledger' = DOMAIN ledger \ {c}
         /\ \A id \in DOMAIN ledger' : ledger'[id] = ledger[id]
         /\ conns' = SelectSeq(conns, LAMBDA d : d # c)
         /\ \A j \in 1..Len(log') :
              log'[j].ev = "send" =>
                /\ log'[j].msg.type = "UPDATE_GLOBAL_BETS" =>
                     \A k \in GameItemKey :
                       log'[j].msg.bets[k] =
                         SumOver([id \in DOMAIN ledger \ {c} |-> ledger[id][k]],
                                 DOMAIN ledger \ {c})
                /\ log'[j].msg.type = "LEADERBOARD_UPDATE" =>
                     /\ log'[j].msg.players = [i \in 1..Len(reg') |-> reg'[i].info]
                     /\ \A i \in 1..Len(log'[j].msg.players) :
                          log'[j].msg.players[i].id # c]_vars

\* The link of remote member x1, who had a wager standing, has just closed
\* while "a" is a member: "a" was told, and the aggregate it was sent is empty.
C12_Witness ==
  /\ LinkClosed(log, "x1")
  /\ log[IF log[1].ev = "linkClosed" THEN 1 ELSE 2].sum # getEmptyBets
  /\ RegHas(reg, "a") /\ ~RegHas(reg, "x1")
  /\ SentTo(log, "a", "PLAYER_LEFT")
  /\ \E j \in 1..Len(log) :
       /\ IsSend(log[j], "a", "UPDATE_GLOBAL_BETS")
       /\ log[j].msg.bets = getEmptyBets

\* The key-wise sum of the wager vectors of L, written out.
KeywiseSum(L) ==
  [k \in GameItemKey |-> SumOver([id \in DOMAIN L |-> L[id][k]], DOMAIN L)]

\* The running handler's trace l shows the aggregate agg sent as
\* UPDATE_GLOBAL_BETS on every open link of the list cs.
AggregateBroadcast(l, cs, agg) ==
  \A i \in 1..Len(cs) :
    cs[i] \in open =>
      \E j \in 1..Len(l) :
        IsSend(l[j], cs[i], "UPDATE_GLOBAL_BETS") /\ l[j].msg.bets = agg

\* C13: when the Host handles PLACE_BET(key, amount) from participant id,
\* Ledger[id][key] grows by exactly amount, the other keys of id, the vectors
\* of all other participants, the Registry and the link list stay as they
\* were, and the recomputed aggregate (the key-wise sum of the new Ledger) is
\* broadcast to every open link and shown by the Host.
C13_PlaceBetFrame ==
  [][( Handled(log', "PLACE_BET") /\ RegHas(reg, log'[1].from) )
     => LET id == log'[1].from
            key == log'[1].msg.key
            amount == log'[1].msg.amount
        IN /\ id \in DOMAIN ledger /\ DOMAIN ledger' = DOMAIN ledger
           /\ ledger'[id][key] = ledger[id][key] + amount
           /\ \A k \in GameItemKey \ {key} : ledger'[id][k] = ledger[id][k]
           /\ \A o \in DOMAIN ledger \ {id} : ledger'[o] = ledger[o]
           /\ reg' = reg /\ conns' = conns
           /\ AggregateBroadcast(log', conns, KeywiseSum(ledger'))
           /\ globalBets'[HostProc] = KeywiseSum(ledger')]_vars

\* The Host has just recorded the second wager of member x1, on another item
\* than the first, while member x2 has a wager standing.
C13_Witness ==
  /\ Handled(log, "PLACE_BET") /\ log[1].from = "x1"
  /\ RegHas(reg, "x1") /\ RegHas(reg, "x2")
  /\ ledger["x1"][GAME_ITEMS[1]] = BET_INCREMENT
  /\ ledger["x1"][GAME_ITEMS[2]] = BET_INCREMENT
  /\ TotalBet(ledger["x2"]) > 0
  /\ SentTo(log, "x2", "UPDATE_GLOBAL_BETS")

\* The trace l is that of the user of p cancelling his wagers.
Cancelled(l, p) == Len(l) > 0 /\ l[1].ev = "resetBets" /\ l[1].at = p

\* C14: a reset undoes the wagers placed since the last settlement.  On the
\* page of the peer the balance is again what it was before those wagers
\* (the balance the last settlement left) and the WagerVector is all zero;
\* a Host that resets its own wagers first broadcasts the aggregate of the
\* Ledger with only its own entry zeroed; and a Host that handles RESET_BETS
\* from participant id zeroes the Ledger entry of id, keeps every other entry
\* and the Registry, and broadcasts the recomputed aggregate.
C14_ResetUndoes ==
  [][/\ \A p \in Procs :
          Cancelled(log', p) =>
            /\ balance'[p] = balance[p] + TotalBet(bets[p])
            /\ balance'[p] = startBal[p]
            /\ bets'[p] = getEmptyBets
            /\ role[p] = "HOST" =>
                 LET own == [id \in DOMAIN ledger \cup {myId[p]} |->
                               IF id = myId[p] THEN getEmptyBets ELSE ledger[id]]
                 IN \A i \in 1..Len(conns) :
                      conns[i] \in open =>
                        \E j \in 1..Len(log') :
                          /\ IsSend(log'[j], conns[i], "UPDATE_GLOBAL_BETS")
                          /\ log'[j].msg.bets = KeywiseSum(own)
                          /\ \A h \in 1..j : log'[h].ev # "hostClose"
     /\ ( Handled(log', "RESET_BETS") /\ RegHas(reg, log'[1].from) )
          => LET id == log'[1].from
             IN /\ DOMAIN ledger' = DOMAIN ledger
                /\ ledger'[id] = getEmptyBets
                /\ \A o \in DOMAIN ledger \ {id} : ledger'[o] = ledger[o]
                /\ reg' = reg /\ conns' = conns
                /\ AggregateBroadcast(log', conns, KeywiseSum(ledger'))
                /\ globalBets'[HostProc] = KeywiseSum(ledger')]_vars

\* The Host has just cancelled the wagers of member x1 while member x2 has
\* two wagers standing, and x2 was sent the aggregate of what remains.
C14_Witness ==
  /\ Handled(log, "RESET_BETS") /\ log[1].from = "x1"
  /\ RegHas(reg, "x1") /\ RegHas(reg, "x2")
  /\ ledger["x1"] = getEmptyBets
  /\ TotalBet(ledger["x2"]) = 2 * BET_INCREMENT
  /\ \E j \in 1..Len(log) :
       /\ IsSend(log[j], "x2", "UPDATE_GLOBAL_BETS")
       /\ log[j].msg.bets = ledger["x2"]

\* Balance and wagers of page p are not negative and add up to the balance
\* p had when its round began.
Solvent(p) ==
  /\ balance[p] >= 0
  /\ \A k \in GameItemKey : bets[p][k] >= 0
  /\ balance[p] + TotalBet(bets[p]) = startBal[p]
  /\ TotalBet(bets[p]) <= startBal[p]

\* C15: at every peer and in every state, the balance and every entry of the
\* WagerVector are >= 0 and balance plus wagers equals the balance at the
\* start of the round, so that the wagers never exceed it; and a wager
\* attempted with less than BET_INCREMENT leaves balance and WagerVector as
\* they are, sends nothing and records nothing.
C15_NeverOverdrawn ==
  /\ [](\A p \in Procs : Solvent(p))
  /\ [][\A p \in Procs, key \in GameItemKey :
          (Staked(log', p, key) /\ balance[p] < BET_INCREMENT)
            => /\ balance'[p] = balance[p] /\ bets'[p] = bets[p]
               /\ upQ' = upQ /\ ledger' = ledger
               /\ \A j \in 1..Len(log') : log'[j].ev # "send"]_vars

\* The user who has staked all his money has just tried to stake once more.
C15_Witness ==
  /\ \E key \in GameItemKey : Staked(log, HostProc, key)
  /\ balance[HostProc] = 0
  /\ TotalBet(bets[HostProc]) = startBal[HostProc]
  /\ message[HostProc] = "outOfMoney"

\* The trace l holds a press of the shake button of page p.
Shaken(l, p) == \E j \in 1..Len(l) : l[j].ev = "shake" /\ l[j].at = p

\* The trace l holds an outcome drawn by the timer of page p.
Drawn(l, p) == \E j \in 1..Len(l) : l[j].ev = "draw" /\ l[j].at = p

\* The trace l holds a message of type t sent by the Host.
Broadcast(l, t) == \E j \in 1..Len(l) : l[j].ev = "send" /\ l[j].msg.type = t

\* C16: the Host runs one round at a time: while its outcome timer is
\* pending the page is shaking; a round starts (SHAKE_START, timer set) only
\* with no timer pending and not shaking; an outcome is drawn and
\* SHAKE_RESULT broadcast only by the pending timer of a started round,
\* which ends the shaking and leaves no timer.
C16_OneRound ==
  /\ [](\A p \in Procs : shakeTimer[p].on => isShaking[p])
  /\ [][/\ \A p \in Procs :
            /\ (Shaken(log', p) /\ role[p] = "HOST")
                 => /\ ~shakeTimer[p].on /\ ~isShaking[p]
                    /\ shakeTimer'[p].on /\ isShaking'[p]
                    /\ rounds'[p] = rounds[p] + 1
                    /\ ~Drawn(log', p)
            /\ Drawn(log', p)
                 => /\ shakeTimer[p].on /\ isShaking[p]
                    /\ ~shakeTimer'[p].on /\ ~isShaking'[p]
                    /\ rounds'[p] = rounds[p]
            /\ (shakeTimer'[p].on /\ ~shakeTimer[p].on) => Shaken(log', p)
            /\ (shakeTimer[p].on /\ ~shakeTimer'[p].on) => Drawn(log', p)
        /\ Broadcast(log', "SHAKE_START")
             => Shaken(log', HostProc) /\ ~shakeTimer[HostProc].on
        /\ Broadcast(log', "SHAKE_RESULT")
             => Drawn(log', HostProc) /\ shakeTimer[HostProc].on]_vars

\* The Host has just settled its second round in front of a member.
C16_Witness ==
  /\ rounds[HostProc] = MaxShakes
  /\ Drawn(log, HostProc)
  /\ Broadcast(log, "SHAKE_RESULT")
  /\ ~shakeTimer[HostProc].on

SendAt(l, j, c, t) ==
  l[j].ev = "send" /\ l[j].to = c /\ l[j].msg.type = t

\* The place in the trace l where the Ledger was reset, 0 if nowhere.
ClearedAt(l) ==
  IF \E j \in 1..Len(l) : l[j].ev = "clear"
  THEN CHOOSE j \in 1..Len(l) : l[j].ev = "clear"
  ELSE 0

ZeroBets(v) == \A k \in GameItemKey : v[k] = 0

\* C18: when the timer callback has drawn the outcome, the Host first sends
\* SHAKE_RESULT with that outcome to every member with an open link, then
\* resets every Ledger entry to the empty vector with the key set kept, then
\* sends UPDATE_GLOBAL_BETS with every key at 0 to every member with an open
\* link, and is Idle again.
C18_SettleOrder ==
  [][Drawn(log', HostProc) =>
       LET l == log'
           c == ClearedAt(l)
           members == {x \in open : \E i \in 1..Len(conns) : conns[i] = x}
       IN /\ l[1].ev = "draw" /\ c > 1
          /\ \A j \in 1..Len(l) :
                (l[j].ev = "send" /\ l[j].msg.type = "SHAKE_RESULT")
                  => j < c /\ l[j].msg.results = l[1].results
          /\ \A j \in 2..(c - 1) :
                l[j].ev = "send" /\ l[j].msg.type = "SHAKE_RESULT"
          /\ \A x \in members :
                /\ \E j \in 2..(c - 1) : SendAt(l, j, x, "SHAKE_RESULT")
                /\ \E j \in (c + 1)..Len(l) :
                      SendAt(l, j, x, "UPDATE_GLOBAL_BETS")
          /\ DOMAIN l[c].ledger = DOMAIN ledger
          /\ \A id \in DOMAIN ledger : l[c].ledger[id] = getEmptyBets
          /\ \A j \in (c + 1)..Len(l) :
                (l[j].ev = "send" /\ l[j].msg.type = "UPDATE_GLOBAL_BETS")
                  => ZeroBets(l[j].msg.bets) /\ ZeroBets(l[j].sum)
          /\ ZeroBets(globalBets'[HostProc])
          /\ diceResult'[HostProc] = l[1].results
          /\ ~isShaking'[HostProc] /\ ~shakeTimer'[HostProc].on]_vars

\* The Host has just settled a round in which a member had wagered: the
\* member was sent the outcome while the Ledger still held its wager, and
\* then the empty aggregate.
C18_Witness ==
  /\ Drawn(log, HostProc)
  /\ \E x \in Foreign, j \in 1..Len(log) :
        /\ SendAt(log, j, x, "SHAKE_RESULT")
        /\ ~ZeroBets(log[j].sum)
        /\ \E i \in (j + 1)..Len(log) :
              SendAt(log, i, x, "UPDATE_GLOBAL_BETS") /\ ZeroBets(log[i].msg.bets)

\* The messages the trace l shows as sent to c, in the order of sending.
RECURSIVE SentMsgs(_, _)
SentMsgs(l, c) ==
  IF l = <<>> THEN <<>>
  ELSE LET e == l[Len(l)]
           before == SentMsgs(SubSeq(l, 1, Len(l) - 1), c)
       IN IF e.ev = "send" /\ e.to = c THEN Append(before, e.msg) ELSE before

\* Page p has a settlement in s' that it did not have in s.
Settles(old, new) == new.set /\ new # old

\* C19: agreement on the outcome.  The Host settles only in the step that
\* draws, against the outcome drawn, and every SHAKE_RESULT of that step
\* carries this outcome, at most one of them going to the Client.  What
\* waits on the Client's link is what the Host sent, in the order sent.  The
\* Client settles only in a step that handles a SHAKE_RESULT, once for the
\* message, against the outcome of that message.
C19_Agreement ==
  [][/\ Settles(resultState[HostProc], resultState'[HostProc])
          => Drawn(log', HostProc)
     /\ Drawn(log', HostProc)
          => /\ resultState'[HostProc].set
             /\ resultState'[HostProc].results = log'[1].results
             /\ diceResult'[HostProc] = log'[1].results
             /\ \A j \in 1..Len(log') :
                   (log'[j].ev = "send" /\ log'[j].msg.type = "SHAKE_RESULT")
                     => log'[j].msg.results = log'[1].results
             /\ \A i, j \in 1..Len(log') :
                   (IsSend(log'[i], "a", "SHAKE_RESULT")
                      /\ IsSend(log'[j], "a", "SHAKE_RESULT")) => i = j
     /\ \/ downQ' = <<>>
        \/ downQ # <<>> /\ downQ' = Tail(downQ)
        \/ downQ' = downQ \o SentMsgs(log', "a")
     /\ Settles(resultState["a"], resultState'["a"])
          => ClientHandled(log', "a", "SHAKE_RESULT")
     /\ ClientHandled(log', "a", "SHAKE_RESULT")
          => /\ log'[1].msg = Head(downQ)
             /\ resultState'["a"].set
             /\ resultState'["a"].results = log'[1].msg.results
             /\ diceResult'["a"] = log'[1].msg.results
             /\ \A j \in 2..Len(log') : log'[j].ev # "handle"]_vars

\* The Client has just settled the round against the outcome the Host drew
\* and settled against.
C19_Witness ==
  /\ ClientHandled(log, "a", "SHAKE_RESULT")
  /\ resultState["a"].set /\ resultState[HostProc].set
  /\ resultState["a"].results = resultState[HostProc].results
  /\ diceResult["a"] = diceResult[HostProc]

\* Page p is OFFLINE, has no room and is not shaking.
PlaysAlone(p) == role[p] = "OFFLINE" /\ roomId[p] = "" /\ ~isShaking[p]

\* C20: play without a room works: on a page that is OFFLINE and has no
\* room the betting board takes a wager, and a press of the shake button
\* starts the shake whose timer then draws the outcome and settles the wager.
C20_OfflinePlay ==
  /\ [](\A p \in Procs : PlaysAlone(p) => BoardEnabled(p))
  /\ [][\A p \in Procs :
          (Shaken(log', p) /\ PlaysAlone(p))
            => isShaking'[p] /\ shakeTimer'[p].on]_vars

\* The Client "a" is an admitted member whose link is open at both ends.
AdmittedOpen ==
  /\ role[HostProc] = "HOST" /\ RegHas(reg, "a") /\ "a" \in open
  /\ role["a"] = "CLIENT" /\ cLink["a"] = "open"

\* The mirrors of "a" are the key-wise sum of the Ledger and the Registry.
Synced ==
  /\ globalBets["a"] = KeywiseSum(ledger)
  /\ leaderboard["a"] = RegValues(reg)

\* C21: mirror convergence.  Whenever everything sent to the admitted Client
\* with an open link has been delivered, its aggregate mirror is the key-wise
\* sum of the Host's Ledger and its leaderboard mirror the Host's Registry;
\* and, every message that has arrived being handled, once the Host has
\* stopped changing Ledger and Registry the admitted Client stays in that
\* agreement for good.
C21_Convergence ==
  /\ []((AdmittedOpen /\ downQ = <<>>) => Synced)
  /\ <>[][ledger' = ledger /\ reg' = reg]_vars
       => <>[](AdmittedOpen => Synced)

\* The admitted Client has read all it was sent and mirrors a wager of
\* another member and a leaderboard of three.
C21_Witness ==
  /\ AdmittedOpen /\ downQ = <<>> /\ Synced
  /\ ~ZeroBets(globalBets["a"])
  /\ Len(leaderboard["a"]) >= 3

\* C22: after every Host handler the peers with a Ledger entry are exactly
\* the peers of the Registry, so that a peer that is not admitted has no
\* Ledger entry and adds nothing to an aggregate the Host sends.
C22_LedgerIsRegistry ==
  /\ [](DOMAIN ledger = RegKeys(reg))
  /\ [][\A j \in 1..Len(log') :
          log'[j].ev = "send"
            => log'[j].sum = KeywiseSum([id \in DOMAIN ledger' \cap RegKeys(reg')
                                           |-> ledger'[id]])]_vars

\* C23: while the page hosts, the link list holds each admitted link exactly
\* once and the Registry exactly one Participant for each of them plus the
\* Host's own, keyed by the Host's endpoint name; no handler sends one
\* broadcast twice to a member.
C23_OnePerLink ==
  /\ [](role[HostProc] = "HOST" =>
          /\ \A c \in Clients : Count(conns, c) <= 1
          /\ \A i, j \in 1..Len(reg) : reg[i].key = reg[j].key => i = j
          /\ RegHas(reg, myId[HostProc]) /\ RegGet(reg, myId[HostProc]).isHost)
  /\ [][\A i, j \in 1..Len(log') :
          (log'[i].ev = "send" /\ log'[j].ev = "send"
             /\ log'[i].to = log'[j].to /\ log'[i].msg = log'[j].msg
             /\ log'[i].msg.type \in {"PLAYER_JOINED", "PLAYER_LEFT"})
            => i = j]_vars

\* Page p settles in s -> s' against the outcome res as C24 says: with the
\* wagers it holds in s.
SettlesOwn(p, res) ==
  /\ balance'[p] = balance[p] + totalReturn(bets[p], res)
  /\ bets'[p] = getEmptyBets
  /\ resultState'[p].set
  /\ resultState'[p].totalBet = TotalBet(bets[p])
  /\ resultState'[p].winAmount = totalReturn(bets[p], res)
  /\ TotalBet(bets[p]) = 0 => balance'[p] = balance[p]

\* C24: every page, the Host's included, settles a round against the
\* WagerVector it holds when the outcome is applied: the return is computed
\* from these wagers, the balance is credited with it and the WagerVector is
\* emptied; with no wager the balance stays.
C24_SettleOwnWagers ==
  [][\A p \in Procs :
       /\ Drawn(log', p) => SettlesOwn(p, log'[1].results)
       /\ ClientHandled(log', p, "SHAKE_RESULT")
            => SettlesOwn(p, log'[1].msg.results)]_vars

\* C25: a started round completes and is not cancelled.  While the outcome
\* timer of the Host's page is pending no step but its firing removes or
\* changes it, whatever else is handled meanwhile; and the timer being
\* scheduled fairly, every started round leads to the state in which the
\* outcome has just been drawn and the page is Idle again.
C25_RoundCompletes ==
  /\ [][(shakeTimer[HostProc].on /\ ~Drawn(log', HostProc))
          => shakeTimer'[HostProc] = shakeTimer[HostProc]
             /\ isShaking'[HostProc]]_vars
  /\ shakeTimer[HostProc].on
       ~> (Drawn(log, HostProc) /\ ~isShaking[HostProc]
             /\ ~shakeTimer[HostProc].on)

\* A round has just run to its end on a page that lost the HOST role and
\* its peer during the delay.
C25_Witness ==
  /\ Drawn(log, HostProc)
  /\ ~isShaking[HostProc] /\ ~shakeTimer[HostProc].on
  /\ role[HostProc] # "HOST"
  /\ rounds[HostProc] >= 1

\* How many entries of the trace l are messages of type t sent to c.
SendCount(l, c, t) ==
  Cardinality({j \in 1..Len(l) : IsSend(l[j], c, t)})

\* The places of the trace l at which a participant was deleted.
Deletions(l) == {j \in 1..Len(l) : l[j].ev = "delete"}

\* Every peer id a link of the Host can lead to.
Endpoints == {"a"} \cup {AllForeign[i] : i \in 1..Len(AllForeign)}

MsgsTo(l, c) ==
  LET ss == SelectSeq(l, LAMBDA e : e.ev = "send" /\ e.to = c)
  IN [i \in 1..Len(ss) |-> ss[i].msg]

\* The trace l is that of the Host's end of the link to c closing.
LinkClosedFirst(l, c) ==
  Len(l) > 0 /\ l[1].ev = "linkClosed" /\ l[1].id = c

\* C27: fan-out is best-effort.  No message is ever sent on a link that is
\* not open; when the link of a registered member closes, PLAYER_LEFT skips
\* that link, which is still in the link list, and goes once to every other
\* open entry of the list; SHAKE_START and SHAKE_RESULT go once to every
\* open entry; nothing is replayed: what waits for the Client is what was
\* left of the queue plus what the step itself sent to it, SHAKE_RESULT is
\* sent only by the step that draws the outcome and carries that outcome,
\* and the Client's dice change only by handling a SHAKE_RESULT it was sent.
C27_BestEffort ==
  [][/\ \A j \in 1..Len(log') : log'[j].ev = "send" => log'[j].to \in open
     /\ \A c \in Endpoints :
          (LinkClosedFirst(log', c) /\ RegHas(reg, c)) =>
             \A d \in Endpoints :
                SendCount(log', d, "PLAYER_LEFT")
                  = IF d \in open \ {c} THEN Count(conns, d) ELSE 0
     /\ \A t \in {"SHAKE_START", "SHAKE_RESULT"} :
          Broadcast(log', t) =>
             \A d \in Endpoints :
                SendCount(log', d, t) = IF d \in open THEN Count(conns, d) ELSE 0
     /\ \E b \in {downQ, IF downQ = <<>> THEN <<>> ELSE Tail(downQ), <<>>} :
          \E n \in 0..Len(MsgsTo(log', "a")) :
             downQ' = b \o SubSeq(MsgsTo(log', "a"), 1, n)
     /\ \A j \in 1..Len(log') :
          (log'[j].ev = "send" /\ log'[j].msg.type = "SHAKE_RESULT") =>
             /\ Drawn(log', HostProc)
             /\ log'[j].msg.results = log'[1].results
     /\ (role["a"] = "CLIENT" /\ diceResult'["a"] # diceResult["a"]) =>
          /\ ClientHandled(log', "a", "SHAKE_RESULT")
          /\ downQ # <<>> /\ Head(downQ).type = "SHAKE_RESULT"
          /\ diceResult'["a"] = Head(downQ).results]_vars

\* The link of a registered member has just closed at the Host: the notice
\* went to the admitted Client and not on the closed link, which was still
\* in the link list.
C27_Witness ==
  \E c \in Endpoints \ {"a"} :
     /\ LinkClosedFirst(log, c)
     /\ SendCount(log, c, "PLAYER_LEFT") = 0
     /\ SendCount(log, "a", "PLAYER_LEFT") = 1
     /\ RegHas(reg, "a") /\ "a" \in open

\* The tags handleHostReceivedMessage and handleClientReceivedMessage have a
\* branch for.
HostTags == {"JOIN_REQUEST", "PLACE_BET", "RESET_BETS", "PLAYER_UPDATE"}

ClientTags == {"JOIN_ACCEPTED", "JOIN_REJECTED", "KICKED_NO_MONEY",
               "PLAYER_JOINED", "PLAYER_LEFT", "SHAKE_START", "SHAKE_RESULT",
               "UPDATE_GLOBAL_BETS", "LEADERBOARD_UPDATE"}

\* Messages of the Host-to-Client kinds, and one of no kind of the protocol.
HostToClientMsgs ==
  {[type |-> "SHAKE_START"], [type |-> "KICKED_NO_MONEY"],
   [type |-> "JOIN_REJECTED", reason |-> MIN_BALANCE_TO_JOIN],
   [type |-> "PLAYER_JOINED", playerName |-> PlayerName("a")],
   [type |-> "PLAYER_LEFT", playerName |-> PlayerName("a")],
   [type |-> "LEADERBOARD_UPDATE", players |-> <<>>],
   [type |-> "JOIN_ACCEPTED",
    roomState |-> [globalBets |-> getEmptyBets, players |-> <<>>]]}
  \cup {[type |-> "SHAKE_RESULT", results |-> r] : r \in Outcomes}
  \cup {[type |-> "UPDATE_GLOBAL_BETS",
         bets |-> [getEmptyBets EXCEPT ![k] = BET_INCREMENT]] : k \in UsedKeys}

StrayToHost == HostToClientMsgs \cup {[type |-> "PING"]}

StrayToClient(x) ==
  {m \in ForeignMsgs(x) : m.type \in HostTags} \cup {[type |-> "PING"]}

\* conn.on('data') on the Host's side for a message it has no branch for.
StraySend(x) ==
  /\ x \in open
  /\ HostLive(World)
  /\ QueueRoom
  /\ \E m \in StrayToHost : Commit(handleHostReceivedMessage(World, x, m))

\* conn.on('data') on the Client's side for a message it has no branch for.
ClientStray(p) ==
  /\ p = "a"
  /\ cLink[p] = "open"
  /\ QueueRoom
  /\ \E m \in StrayToClient(p) :
       Commit(handleClientReceivedMessage(
                LogEv(World, [ev |-> "handle", at |-> p, msg |-> m]), p, m))

\* The room of MirrorSpec, whose endpoints also send messages of kinds the
\* receiving role does not handle.
StrayNext ==
  \/ MirrorNext
  \/ \E x \in Foreign : StraySend(x)
  \/ ClientStray("a")

StraySpec == Init /\ [][StrayNext]_vars

\* The step changed nothing but the trace (and took the handled message off
\* the queue of the Host, when it came from the Client's page).
OnlyTraced ==
  /\ Len(log') = 1
  /\ upQ' \in {upQ, IF upQ = <<>> THEN <<>> ELSE Tail(upQ)}
  /\ <<role, roomId, myId, balance, bets, globalBets, leaderboard, isShaking,
       diceResult, resultState, message, urlRoom,
       handlerRole, shakeBets, joinBal, joinBets, joinTarget,
       peerRef, pendingPeer, attemptCode, cLink,
       conns, ledger, reg, open, timers, shakeTimer, leaveTimer,
       downQ, rounds, rooms, notified, startBal>>'
     = <<role, roomId, myId, balance, bets, globalBets, leaderboard, isShaking,
         diceResult, resultState, message, urlRoom,
         handlerRole, shakeBets, joinBal, joinBets, joinTarget,
         peerRef, pendingPeer, attemptCode, cLink,
         conns, ledger, reg, open, timers, shakeTimer, leaveTimer,
         downQ, rounds, rooms, notified, startBal>>

\* C28: a message the receiving role has no branch for is ignored.  When the
\* Host receives a message whose tag is not one of JOIN_REQUEST, PLACE_BET,
\* RESET_BETS, PLAYER_UPDATE, or a PLAYER_UPDATE from a peer that is not in
\* the Registry, then Ledger, Registry, link list, round state and every
\* other part of the state stay as they were and nothing is sent; the same
\* holds for the Client and a tag that is not one of its nine.
C28_StrayIgnored ==
  [][/\ (Len(log') > 0 /\ log'[1].ev = "recv"
           /\ \/ log'[1].msg.type \notin HostTags
              \/ /\ log'[1].msg.type = "PLAYER_UPDATE"
                 /\ ~RegHas(reg, log'[1].from))
          => OnlyTraced
     /\ (Len(log') > 0 /\ log'[1].ev = "handle"
           /\ log'[1].msg.type \notin ClientTags)
          => OnlyTraced]_vars

\* A registered member has just sent the Host a SHAKE_RESULT while a round
\* with wagers in the Ledger was in progress.
C28_Witness ==
  /\ Len(log) = 1 /\ log[1].ev = "recv"
  /\ log[1].msg.type = "SHAKE_RESULT"
  /\ RegHas(reg, log[1].from)
  /\ shakeTimer[HostProc].on
  /\ ~ZeroBets(KeywiseSum(ledger))

\* The trace l shows, before position j, an event of kind ev for the member
\* whose name is name.
DoneBefore(l, j, ev, name) ==
  \E i \in 1..(j - 1) : l[i].ev = ev /\ PlayerName(l[i].id) = name

\* C29: in every handler of the Host each message is sent after the change
\* it reports: PLAYER_JOINED after the member was inserted, PLAYER_LEFT
\* after the member was deleted from Registry and Ledger, and
\* UPDATE_GLOBAL_BETS and LEADERBOARD_UPDATE carry the Ledger sum and the
\* Registry as they are when the message is sent.
C29_MutateThenBroadcast ==
  [][\A j \in 1..Len(log') :
        log'[j].ev = "send" =>
          /\ log'[j].msg.type = "PLAYER_JOINED" =>
                DoneBefore(log', j, "insert", log'[j].msg.playerName)
          /\ log'[j].msg.type = "PLAYER_LEFT" =>
                DoneBefore(log', j, "delete", log'[j].msg.playerName)
          /\ log'[j].msg.type = "UPDATE_GLOBAL_BETS" =>
                log'[j].msg.bets = log'[j].sum
          /\ log'[j].msg.type = "LEADERBOARD_UPDATE" =>
                log'[j].msg.players = log'[j].players]_vars

\* ------------------------------------------------------------ room creation
RetryCodes == {AllCodes[i] : i \in 1..NumRetryCodes}

\* The err.type values the branches of the Host's peer.on('error') tell apart.
OtherErrors == {"network", "server-error", "other"}

ErrorMessage(kind) ==
  CASE kind = "network" -> "networkError"
    [] kind = "server-error" -> "serverError"
    [] OTHER -> "reloadPage"

\* peer.on('error') of the Peer made by initHostPeer, err.type
\* 'unavailable-id': initHostPeer(newId) is called from the same closure, so
\* the message handler of the new Peer reads the same role (handlerRole).
HostPeerUnavailable ==
  /\ QueueRoom
  /\ pendingPeer[HostProc] = "host"
  /\ \E code \in RetryCodes :
       LET W0 == LogEv(World, [ev |-> "peerError", at |-> HostProc,
                               kind |-> "unavailable-id"])
           W1 == PeerDestroy([W0 EXCEPT !.message[HostProc] = "codeTaken"],
                             HostProc, <<>>)
       IN Commit([W1 EXCEPT !.conns = <<>>,
                            !.ledger = EmptyLedger,
                            !.reg = <<>>,
                            !.pendingPeer[HostProc] = "host",
                            !.attemptCode = code])

\* peer.on('error') of the Host's Peer with any other err.type: a message is
\* set; a Peer that had not opened yet never opens.
HostPeerError(kind) ==
  /\ QueueRoom
  /\ pendingPeer[HostProc] = "host" \/ HostLive(World)
  /\ Commit(LogEv([World EXCEPT !.message[HostProc] = ErrorMessage(kind),
                                !.pendingPeer[HostProc] = "none"],
                  [ev |-> "peerError", at |-> HostProc, kind |-> kind]))

\* peer.on('disconnected') of the Host's Peer: the signalling server is
\* lost.  peerRef.current is the Peer itself once it has opened, and is
\* null or a destroyed Peer before.
HostPeerDisconnected ==
  /\ QueueRoom
  /\ pendingPeer[HostProc] = "host" \/ HostLive(World)
  /\ LET W0 == LogEv([World EXCEPT !.message[HostProc] = "reconnecting",
                                   !.pendingPeer[HostProc] = "none"],
                     [ev |-> "disconnected", at |-> HostProc])
     IN Commit(IF peerRef[HostProc] \in {"host", "client"}
               THEN LogEv(W0, [ev |-> "reconnect", at |-> HostProc])
               ELSE W0)

\* The Host's page creating rooms over a signalling server that may report
\* the code taken, fail otherwise or drop the Peer, with remote members and
\* the Host's own wagers.
CreateNext ==
  \/ CreateRoom
  \/ HostPeerOpen
  \/ HostPeerUnavailable
  \/ \E kind \in OtherErrors : HostPeerError(kind)
  \/ HostPeerDisconnected
  \/ PeerOpenClient(HostProc)
  \/ PeerError(HostProc)
  \/ \E key \in UsedKeys : PlaceBet(HostProc, key)
  \/ ResetBets(HostProc)
  \/ Remote

\* The server answers every Peer that waits for it.
CreateSpec ==
  /\ Init /\ [][CreateNext]_vars
  /\ WF_vars(HostPeerOpen \/ HostPeerUnavailable)

\* The trace l is that of the Host's Peer reporting its code taken.
Collided(l) ==
  Len(l) > 0 /\ l[1].ev = "peerError" /\ l[1].kind = "unavailable-id"

\* The trace l is that of any other failure of the Host's Peer.
Failed(l) ==
  /\ Len(l) > 0
  /\ \/ l[1].ev = "peerError" /\ l[1].kind # "unavailable-id"
     \/ l[1].ev = "disconnected"

Reconnects(l) == \E j \in 1..Len(l) : l[j].ev = "reconnect"

\* The page is the Host of the room whose code the open Peer was made with.
Bound ==
  /\ role[HostProc] = "HOST" /\ peerRef[HostProc] = "host"
  /\ roomId[HostProc] = attemptCode
  /\ myId[HostProc] = resolveRoom(attemptCode)

\* C30: creating a room retries only on a name collision.  A Peer whose
\* code is taken is replaced at once by a Peer bound to a newly drawn code;
\* no other step but the user's own creation starts a Peer for a room; any
\* other failure of the Host's Peer only sets a message: no Peer is
\* started and no reconnection is attempted; and if codes are found taken
\* only finitely often, a Peer that waits for the server leads to the HOST
\* role with the code of the attempt that succeeded, unless it fails
\* otherwise.
C30_RetryOnlyOnCollision ==
  /\ [][/\ Collided(log') =>
             /\ pendingPeer'[HostProc] = "host"
             /\ attemptCode' \in RetryCodes
             /\ message'[HostProc] = "codeTaken"
             /\ ~Reconnects(log')
        /\ (/\ pendingPeer'[HostProc] = "host" /\ rooms' = rooms
            /\ pendingPeer[HostProc] # "host" \/ attemptCode' # attemptCode)
             => Collided(log')
        /\ Failed(log') =>
             /\ pendingPeer'[HostProc] = "none"
             /\ attemptCode' = attemptCode
             /\ peerRef' = peerRef /\ role' = role /\ roomId' = roomId
             /\ message'[HostProc] \in {ErrorMessage(k) : k \in OtherErrors}
                                         \cup {"reconnecting"}
             /\ ~Reconnects(log')]_vars
  /\ <>[][~Collided(log')]_vars =>
       (pendingPeer[HostProc] = "host" ~> (Bound \/ Failed(log)))

\* The messages the failure handlers of the two roles set.
FailureMessages ==
  {ErrorMessage(k) : k \in OtherErrors}
    \cup {"roomNotFound", "lostHost", "removed"}

\* The unconnected state: no role, no room, and the user told why.
Unconnected(p) ==
  role[p] = "OFFLINE" /\ roomId[p] = "" /\ message[p] \in FailureMessages

\* C31: every failure ends the session of the peer it hits in the
\* unconnected state.  After an error of the Host's Peer, after an error of
\* a Client's Peer, after the close of a Client's open link, and after the
\* departure that follows JOIN_REJECTED or KICKED_NO_MONEY, the page has
\* role OFFLINE, no room id and a failure message.
C31_FailureEndsOffline ==
  [][/\ (Len(log') > 0 /\ log'[1].ev = "peerError"
           /\ log'[1].kind # "unavailable-id")
          => Unconnected(HostProc)'
     /\ \A p \in Procs :
          /\ (/\ peerRef[p] = "client" /\ peerRef'[p] = "client"
              /\ cLink[p] \in {"unavailable", "dialing"}
              /\ cLink'[p] = "none")
               => Unconnected(p)'
          /\ (/\ peerRef[p] = "client" /\ peerRef'[p] = "client"
              /\ cLink[p] = "open" /\ cLink'[p] = "none")
               => Unconnected(p)'
          /\ (leaveTimer[p] /\ ~leaveTimer'[p])
               => /\ Unconnected(p)'
                  /\ peerRef'[p] \notin {"host", "client"}]_vars

\* The trace l is that of the user of p placing or cancelling wagers, or of
\* p settling a round.
WagerOrSettle(l, p) ==
  /\ Len(l) > 0
  /\ \/ l[1].ev \in {"placeBet", "resetBets"} /\ l[1].at = p
     \/ ClientHandled(l, p, "SHAKE_RESULT")

\* C32: a dropped link is terminal.  The step in which the Client's open
\* link closes starts no new Peer and leaves no room in the address; from
\* then on a Peer is started for the Client only by its user opening the
\* invitation; and a Client whose link is open keeps link and Peer through
\* every wager, reset and settlement of its own.
C32_DroppedLinkTerminal ==
  [][/\ (cLink["a"] = "open" /\ cLink'["a"] # "open")
          => /\ pendingPeer'["a"] = "none"
             /\ urlRoom'["a"] = ""
     /\ (urlRoom["a"] = "" /\ pendingPeer'["a"] = "client")
          => /\ peerRef["a"] = "none"
             /\ log' = <<>> /\ urlRoom'["a"] = LinkCode
     /\ (cLink["a"] = "open" /\ WagerOrSettle(log', "a"))
          => /\ cLink'["a"] = "open"
             /\ peerRef'["a"] = peerRef["a"]
             /\ pendingPeer'["a"] = "none"]_vars

\* The page of p hosts a room over a live Peer.
Hosting(p) == role[p] = "HOST" /\ peerRef[p] = "host"

\* C33: a room lives as long as its Host.  Once the page hosts a room, no
\* wager, reset, round or balance change of its own and no join, departure
\* or eviction of a member destroys its Peer or changes its role, its room
\* code or its id.
C33_RoomOutlivesWagers ==
  [][Hosting(HostProc) =>
       /\ Hosting(HostProc)'
       /\ roomId'[HostProc] = roomId[HostProc]
       /\ myId'[HostProc] = myId[HostProc]]_vars

\* C34: while the page is in the HOST role, the Ledger entry under its own
\* id is its private wager vector.
C34_HostEntryIsWagers ==
  role[HostProc] = "HOST" =>
    /\ myId[HostProc] \in DOMAIN ledger
    /\ ledger[myId[HostProc]] = bets[HostProc]

\* C35: whenever nothing is in flight between the admitted Client and the
\* Host, the Ledger entry of the Client is the Client's wager vector.
C35_LedgerIsClientWagers ==
  (AdmittedOpen /\ upQ = <<>> /\ downQ = <<>>)
    => /\ "a" \in DOMAIN ledger
       /\ ledger["a"] = bets["a"]

\* A room of remote members that join, are refused, leave by closing their
\* link, or are expelled by the Eviction Monitor.
DepartNext ==
  \/ MonitorNext
  \/ \E x \in Members : HostConnClose(x)

DepartSpec == Init /\ [][DepartNext]_vars

\* How many PLAYER_LEFT naming c the trace l shows sent on the link to d.
LeftCount(l, d, c) ==
  Cardinality({j \in 1..Len(l) :
                 /\ IsSend(l[j], d, "PLAYER_LEFT")
                 /\ l[j].msg.playerName = PlayerName(c)})

\* The participants the Eviction Monitor finds below the threshold and
\* holding a link.
Broke ==
  {reg[n].key : n \in {i \in 1..Len(reg) :
                         /\ ~reg[i].info.isHost
                         /\ reg[i].info.balance < MIN_BALANCE_TO_STAY
                         /\ Count(conns, reg[i].key) > 0}}

\* C36: one PLAYER_LEFT broadcast for each departure of an admitted
\* participant and none otherwise.  When the link of a registered member
\* closes, PLAYER_LEFT naming it goes once to every other open entry of the
\* link list; when the link of a peer that is not registered (never
\* admitted, refused, or expelled before) closes, none is sent; a run of
\* the Eviction Monitor sends PLAYER_LEFT naming each participant it
\* expels once to every open entry of the list it still holds, and takes
\* the participant out of the Registry, so that the delayed close of its
\* link announces nothing more; no other step sends PLAYER_LEFT.
C36_OneNoticePerDeparture ==
  [][/\ \A c \in Endpoints :
          (LinkClosed(log', c) /\ ~Monitored(log')) =>
             \A d \in Endpoints :
                LeftCount(log', d, c)
                  = IF RegHas(reg, c) /\ d \in open \ {c}
                    THEN Count(conns, d) ELSE 0
     /\ Monitored(log') =>
          \A c \in Endpoints :
             /\ c \in Broke => ~RegHas(reg', c) /\ c \in timers'
             /\ \A d \in Endpoints :
                  IF c \notin Broke \/ d \notin open
                  THEN LeftCount(log', d, c) = 0
                  ELSE IF d \notin Broke \/ d = c
                  THEN LeftCount(log', d, c) = Count(conns, d)
                  ELSE LeftCount(log', d, c) \in {0, Count(conns, d)}
     /\ (\E j \in 1..Len(log') :
           log'[j].ev = "send" /\ log'[j].msg.type = "PLAYER_LEFT")
          => \/ Monitored(log')
             \/ \E c \in Endpoints :
                   /\ LinkClosed(log', c) /\ RegHas(reg, c)
                   /\ \A j \in 1..Len(log') :
                        (log'[j].ev = "send" /\ log'[j].msg.type = "PLAYER_LEFT")
                          => log'[j].msg.playerName = PlayerName(c)]_vars

\* The Eviction Monitor has just expelled one participant and told a
\* member that stays, once.
C36_Witness ==
  /\ Monitored(log)
  /\ \E c, d \in Endpoints :
        /\ c # d
        /\ \E j \in Deletions(log) : log[j].id = c
        /\ RegHas(reg, d) /\ d \in open
        /\ LeftCount(log, d, c) = 1

\* conn.on('close') on the Client's side when the transport drops the link:
\* what was on its way to the Client is lost.
LinkDrop(p) ==
  /\ p = "a"
  /\ cLink[p] = "open"
  /\ Commit(ClientOnClose(
              LogEv([World EXCEPT !.cLink[p] = "none", !.downQ = <<>>],
                    [ev |-> "linkDrop", at |-> p]), p))

\* The room of MirrorSpec over a transport that may drop the Client's link.
ShakeLiveNext ==
  \/ MirrorNext
  \/ LinkDrop("a")
  \/ HostConnClose("a")

\* The Client reads what it is sent, the server answers the Host's Peer,
\* and the outcome timer fires: the timer does not wait for the Client to
\* read its messages, so it fires if it is due again and again.
ShakeLiveSpec ==
  /\ Init /\ [][ShakeLiveNext]_vars
  /\ WF_vars(ClientRecv("a"))
  /\ WF_vars(HostPeerOpen)
  /\ \/ <>[](~TimerReady(HostProc))
     \/ []<><<ShakeTimerFire(HostProc)>>_vars

\* C37: every page that enters the shaking state leaves it again.
C37_ShakingEnds ==
  \A p \in Procs : isShaking[p] ~> ~isShaking[p]

\* The trace l is that of the Host receiving a wager or a reset.
WagerReceived(l) ==
  /\ Len(l) > 0 /\ l[1].ev = "recv"
  /\ l[1].msg.type \in {"PLACE_BET", "RESET_BETS"}

\* C38: wagers are locked while a round is shaking.  Between SHAKE_START
\* and SHAKE_RESULT (the Host's outcome timer is pending) a PLACE_BET or
\* RESET_BETS the Host receives changes nothing in the Ledger, and a page
\* that is shaking keeps its balance and its wagers when its user tries to
\* place or cancel a wager.
C38_WagersLocked ==
  [][/\ (shakeTimer[HostProc].on /\ WagerReceived(log')) => ledger' = ledger
     /\ \A p \in Procs :
          (/\ isShaking[p] /\ Len(log') > 0
           /\ log'[1].ev \in {"placeBet", "resetBets"} /\ log'[1].at = p)
            => balance'[p] = balance[p] /\ bets'[p] = bets[p]]_vars

\* C39: a Client that holds an unsettled wager is not removed from the
\* room: a step that leaves the Client with a wager in its vector leaves
\* its open link open and schedules no departure.
C39_WagerKeepsMembership ==
  [][(cLink["a"] = "open" /\ role["a"] = "CLIENT" /\ ~ZeroBets(bets'["a"]))
       => /\ cLink'["a"] = "open" /\ role'["a"] = "CLIENT"
          /\ ~leaveTimer'["a"]]_vars

====
